---- MODULE Spec2Model ----
(***************************************************************************)
(* Signal provider subsystem of robot-log-visualizer: the offline provider *)
(* (archive replay), the realtime provider (windowed live stream) and the  *)
(* periodic thread of each, a thread that reads the realtime buffers, and  *)
(* the query API.  Times are integers (a fixed-point reading of the float  *)
(* seconds of the source).                                                 *)
(***************************************************************************)
EXTENDS Integers, Sequences, FiniteSets, TLC

\* ---------------------------------------------------------------- bounds
MaxTime == 2
MaxLen == 3
MaxLeaves == 2
Period == 1
PctSteps == 4
MaxFrames == 2
RtStep == 10
MaxCols == 4
MaxNeighbor == 2
MaxProviders == 3

\* ------------------------------------------------------- program constants
\* math.inf: initial_time starts at +inf, end_time at -inf
inf == 999
\* self.realtime_fixed_plot_window, seconds
realtime_fixed_plot_window == 20
\* self.trajectory_span, rows on either side of the nearest one
trajectory_span == 200

VARIABLES
    provider_type,   \* "OFFLINE" | "REALTIME"
    period,          \* self.period
    opened,          \* open() has returned successfully
    leaves_seen,     \* offline: leaves visited so far by the loader
    timestamps,      \* self.timestamps: the reference timeline
    initial_time,    \* self.initial_time
    end_time,        \* self.end_time
    state,           \* self._state
    index,           \* self._index
    current_time,    \* self._current_time
    index_lock,      \* holder of self.index_lock: "free" | "provider"
    pc,              \* position of the provider thread inside run()
    seen_state,      \* value of self.state read by the "if" at the top of the iteration
    tmp_index,       \* local tmp_index of run()
    emitted,         \* update_index_signal emissions of the iteration in progress
    buffered_signals,\* realtime: self.buffered_signals
    data,            \* realtime: timestamps deque of every leaf buffer, by frame key
    vc_input,        \* realtime: the frame returned by read_data in this iteration
    frames,          \* realtime: number of frames received so far
    received,        \* history, realtime: the timestamps of the frames ingested so far
    closed_set,      \* history: state has been assigned "closed" at least once
    rd_pc,           \* reader thread inside get_item_from_path: "idle" | "data_read" | "returned"
    rd_leaf,         \* reader: the leaf key its path resolved to
    rd_data,         \* reader: the array obtained from leaf["data"]
    rd_timestamps,   \* reader: the array obtained from leaf["timestamps"]
    store_leaf,      \* query: the store leaf the queried path leads to
    ref_time,        \* query: self.timestamps[index], the reference time of the query
    result,          \* query: what the last query call produced
    points_path_lock,       \* query: holder of _3d_points_path_lock: "free" | "query" | "unregister"
    trajectories_path_lock, \* query: holder of _3d_trajectories_path_lock
    points_path,     \* registry: the keys of self._3d_points_path
    trajectories_path,      \* registry: the keys of self._3d_trajectories_path
    points,          \* registry: the keys of the dict the last get_3d_point_at_index returned
    trajectories,    \* registry: the keys of the dict the last get_3d_trajectory_at_index returned
    reg_call,        \* registry: the last register/unregister call and how it ended
    percentage,      \* history: the argument of the last set_dataset_percentage call
    realtime_network_init,  \* realtime: self.realtime_network_init
    open_result,     \* what the last open() call was given (the handshake of the logger,
                     \* the root group of the archive) and how the call ended
    root_name,       \* self.root_name
    robot_state_path_lock,  \* query: holder of robot_state_path_lock: "free" | "query"
    empty_read_at,   \* history, realtime: the value of frames at the last read that returned no data
    gate_resized,    \* realtime: 1 when buffered_signals has grown while the tick in
                     \* progress was in its loop over the keys of the frame, else 0
    arrows_path,     \* registry: the keys of the 3D arrows registry of the provider
    signal_provider, \* GUI: self.signal_provider, 0 for None, else the number of the object
    providers,       \* GUI: what became of every provider object the GUI created
    actionRealtime_Connect, \* GUI: the "Realtime Connect" action is enabled
    window_closed,   \* GUI: closeEvent has run
    visualized_3d_points,        \* GUI: self.visualized_3d_points
    visualized_3d_trajectories,  \* GUI: self.visualized_3d_trajectories
    visualized_3d_arrows,        \* GUI: self.visualized_3d_arrows
    _registered_3d_points,        \* visualizer: self._registered_3d_points
    _registered_3d_trajectories,  \* visualizer: the keys of self._registered_3d_trajectories
    _register_3d_arrow,           \* visualizer: self._register_3d_arrow
    meshcat_visualizer_mutex,    \* visualizer: holder of the mutex: "free" | "visualizer"
    mc_pc,           \* visualizer thread: its position inside MeshcatProvider.run()
    mc_items,        \* visualizer thread: the keys left to visit of the dict being iterated
    mc_key           \* visualizer thread: the key that passed the registration test

vars == <<provider_type, period, opened, leaves_seen, timestamps, initial_time, end_time,
          state, index, current_time, index_lock, pc, seen_state, tmp_index, emitted,
          buffered_signals, data, vc_input, frames, received, closed_set,
          rd_pc, rd_leaf, rd_data, rd_timestamps,
          store_leaf, ref_time, result, points_path_lock, trajectories_path_lock,
          points_path, trajectories_path, points, trajectories, reg_call, percentage,
          realtime_network_init, open_result, root_name, robot_state_path_lock,
          empty_read_at, gate_resized, arrows_path, signal_provider, providers,
          actionRealtime_Connect, window_closed, visualized_3d_points,
          visualized_3d_trajectories, visualized_3d_arrows, _registered_3d_points,
          _registered_3d_trajectories, _register_3d_arrow, meshcat_visualizer_mutex,
          mc_pc, mc_items, mc_key>>

\* the main window
gui_vars == <<signal_provider, providers, actionRealtime_Connect, window_closed,
              visualized_3d_points, visualized_3d_trajectories, visualized_3d_arrows>>

\* the 3D visualizer and its thread
mc_vars == <<_registered_3d_points, _registered_3d_trajectories, _register_3d_arrow,
             meshcat_visualizer_mutex, mc_pc, mc_items, mc_key>>

\* what the calls on a provider leave alone: the window, the visualizer
\* and the registry of 3D arrows
viewer_vars == <<gui_vars, mc_vars, arrows_path>>

rt_vars == <<buffered_signals, data, vc_input, frames, received, empty_read_at,
             gate_resized>>

\* the locals of a thread that reads a leaf through the query API
rd_vars == <<rd_pc, rd_leaf, rd_data, rd_timestamps>>

\* the store leaf, the reference time and the outcome of a query call
\* and what the calls that are not part of the query API leave alone with them
q_vars == <<store_leaf, ref_time, result, points_path_lock, trajectories_path_lock,
            points_path, trajectories_path, points, trajectories, reg_call, percentage,
            realtime_network_init, open_result, root_name, robot_state_path_lock,
            viewer_vars>>

\* the state of the connection to the realtime logger or to the archive
open_vars == <<realtime_network_init, open_result, root_name>>

\* what a seek leaves alone of q_vars
qs_vars == <<store_leaf, ref_time, result, points_path_lock, trajectories_path_lock,
             points_path, trajectories_path, points, trajectories, reg_call, open_vars,
             robot_state_path_lock, viewer_vars>>

\* what open() leaves alone of q_vars
qo_vars == <<store_leaf, ref_time, result, points_path_lock, trajectories_path_lock,
             points_path, trajectories_path, points, trajectories, reg_call, percentage,
             robot_state_path_lock, viewer_vars>>

\* the registries of 3D points and of 3D trajectories, each with its lock
reg_vars == <<points_path_lock, trajectories_path_lock, points_path, trajectories_path,
              points, trajectories, reg_call>>

\* ------------------------------------------------------------ value sets
PeriodicThreadState == {"running", "pause", "closed"}

Times == 0..MaxTime

SortedSeqs(n) == {s \in [1..n -> Times] : \A i \in 1..(n-1) : s[i] <= s[i+1]}

\* timestamp vectors of the leaves an archive can hold
LeafTimestamps == UNION {SortedSeqs(n) : n \in 2..MaxLen}

\* realtime: the timestamps a frame can carry; with a step of 10 s the last
\* one is 30 s after the first and 20 s, exactly one window, after the second
RtTimes == {0, RtStep, 3 * RtStep}

\* realtime keys are strings; a string is modelled as the sequence of the
\* substrings it is the concatenation of, so that str.startswith is the
\* prefix relation on sequences
\* "robot_realtime::joints_state::positions", always buffered
JointsKey == <<"robot_realtime::joints_state::positions">>
\* "robot_realtime::cmd", a channel of the stream
CmdKey == <<"robot_realtime::cmd">>
\* "robot_realtime::cmd_vel", another channel, whose name extends "cmd"
CmdVelKey == <<"robot_realtime::cmd", "_vel">>
\* the suffix "::0" that names the first element of a channel
ElementSuffix == <<"::0">>
\* the channel keys a frame can carry next to its timestamps entry
FrameKeys == {JointsKey, CmdKey}
\* the keys a plot selection hands to add_signals_to_buffer (channel plus element)
SelectableSignals == {CmdKey \o ElementSuffix, CmdVelKey \o ElementSuffix}

\* a frame: has_ts says whether the "robot_realtime::timestamps" entry is
\* present, ts is its value, keys are the other entries.  The vector a
\* frame carries for a key is represented by the frame's timestamp.
\* The stream carries the joint positions in every frame, the other
\* channels in some.
AllFrames == {f \in [has_ts : BOOLEAN, ts : RtTimes,
                     keys : {ks \in SUBSET FrameKeys : JointsKey \in ks}] :
                 ~f.has_ts => f.ts = 0}
\* the empty mapping, falsy in "if vc_input"
NoFrame == [has_ts |-> FALSE, ts |-> 0, keys |-> {}]
Frames == AllFrames \ {NoFrame}

\* DequeToNumpyLeaf of a channel: the "data" and "timestamps" deques
EmptyLeaf == [data |-> <<>>, timestamps |-> <<>>]

Min(a, b) == IF a <= b THEN a ELSE b
Max(a, b) == IF a >= b THEN a ELSE b

\* ------------------------------------------------- Python/numpy indexing
\* a[i] is defined for -len <= i < len; a negative i counts from the end
ValidIdx(a, i) == -Len(a) <= i /\ i < Len(a)
At(a, i) == IF i >= 0 THEN a[i + 1] ELSE a[Len(a) + i + 1]

\* ------------------------------------------------------------ the loader
\* one leaf of __populate_numerical_data: p = [ts, init, end]
PopulateLeaf(p, leaf) ==
    LET p1 == IF leaf[1] < p.init
              THEN [p EXCEPT !.ts = leaf, !.init = leaf[1]]
              ELSE p
    IN  IF leaf[Len(leaf)] > p1.end
        THEN [p1 EXCEPT !.ts = leaf, !.end = leaf[Len(leaf)]]
        ELSE p1

\* ------------------------------------------------------------------ Init
\* the outcome of a query call: call is the API that was called, neighbor
\* its neighbor argument, kind what came back ("row": one row, "rows": a
\* block of rows, "None", "raised": an exception), rows the indices of the
\* rows taken from the leaf and value their content
QueryResult(call, neighbor, kind, rows, value) ==
    [call |-> call, neighbor |-> neighbor, kind |-> kind, rows |-> rows, value |-> value]
\* no query has been made yet
NoResult == QueryResult("none", 0, "none", <<>>, <<>>)
\* a path that leads to no leaf of the store
NoLeaf == [present |-> FALSE, timestamps |-> <<>>, cols |-> 0]
\* the keys under which the GUI registers 3D points and trajectories
RegKeys == {"left_foot", "right_foot"}
\* no register/unregister call has been made yet
NoCall == [op |-> "none", key |-> "none", raised |-> FALSE]
\* what get_metadata() can do: return the metadata of the logger, return
\* an empty collection, raise ValueError
Handshakes == {"metadata", "empty", "ValueError"}
\* the record of an open() call: its handshake and "True" | "False" | "raised"
OpenResult(handshake, returned) == [handshake |-> handshake, returned |-> returned]
\* open() has not been called yet
NoOpen == OpenResult("none", "none")
\* self.root_name = "robot_logger_device"
DefaultRoot == "robot_logger_device"
\* signal_root_name, as the GUI passes it to the constructor
SignalRootName(type) == IF type = "OFFLINE" THEN DefaultRoot ELSE "robot_realtime"
\* the name of the top-level group of the archive that holds description_list
ArchiveRoots == {DefaultRoot, "renamed_device"}

Constructed(type) ==
    /\ provider_type = type
    /\ period = Period
    /\ opened = FALSE
    /\ leaves_seen = 0
    /\ timestamps = <<>>
    /\ initial_time = inf
    /\ end_time = -inf
    /\ state = "pause"
    /\ index = 0
    /\ current_time = 0
    /\ index_lock = "free"
    /\ pc = "idle"
    /\ seen_state = "pause"
    /\ tmp_index = 0
    /\ emitted = 0
    /\ buffered_signals = {JointsKey}
    /\ data = [k \in FrameKeys |-> EmptyLeaf]
    /\ vc_input = NoFrame
    /\ frames = 0
    /\ received = <<>>
    /\ closed_set = FALSE
    /\ rd_pc = "idle"
    /\ rd_leaf = JointsKey
    /\ rd_data = <<>>
    /\ rd_timestamps = <<>>
    /\ result = NoResult
    /\ points_path_lock = "free"
    /\ trajectories_path_lock = "free"
    /\ points = {}
    /\ trajectories = {}
    /\ reg_call = NoCall
    /\ realtime_network_init = FALSE
    /\ open_result = NoOpen
    /\ root_name = SignalRootName(type)
    /\ robot_state_path_lock = "free"

\* what the GUI records of a provider object: its type ("none" until it is
\* created), whether its thread was started, the state last assigned to it,
\* whether wait() has returned and whether an update slot is connected
Provider(type, started, st, waited, connected) ==
    [type |-> type, started |-> started, state |-> st, waited |-> waited,
     connected |-> connected]
NoProvider == Provider("none", FALSE, "pause", FALSE, FALSE)

\* the main window and the visualizer after construction: no provider, no
\* overlay, the visualizer thread not in an iteration
ViewerConstructed ==
    /\ signal_provider = 0
    /\ providers = [n \in 1..MaxProviders |-> NoProvider]
    /\ actionRealtime_Connect = TRUE
    /\ window_closed = FALSE
    /\ visualized_3d_points = {}
    /\ visualized_3d_trajectories = {}
    /\ visualized_3d_arrows = {}
    /\ _registered_3d_points = {}
    /\ _registered_3d_trajectories = {}
    /\ _register_3d_arrow = {}
    /\ meshcat_visualizer_mutex = "free"
    /\ mc_pc = "top"
    /\ mc_items = {}
    /\ mc_key = "none"
    /\ arrows_path = {}

\* self._3d_points_path = {}; self._3d_trajectories_path = {}
EmptyRegistries == points_path = {} /\ trajectories_path = {}

\* a history variable is kept where a property reads it
NotTracked == -2
\* where it is kept: no percentage seek has been made yet
NoPercentage == -1
\* where it is kept: no read has returned no data yet
NoEmptyRead == -1

InitOffline ==
    /\ Constructed("OFFLINE") /\ ViewerConstructed /\ EmptyRegistries /\ store_leaf = NoLeaf /\ ref_time = 0
    /\ percentage = NotTracked
    /\ empty_read_at = NotTracked
    /\ gate_resized = NotTracked
InitRealtime ==
    /\ Constructed("REALTIME") /\ ViewerConstructed /\ EmptyRegistries /\ store_leaf = NoLeaf /\ ref_time = 0
    /\ percentage = NotTracked
    /\ empty_read_at = NotTracked
    /\ gate_resized = NotTracked

\* the realtime provider, with the history of the reads that returned no data
InitRealtimeTick ==
    /\ Constructed("REALTIME") /\ ViewerConstructed /\ EmptyRegistries /\ store_leaf = NoLeaf /\ ref_time = 0
    /\ percentage = NotTracked
    /\ empty_read_at = NoEmptyRead
    /\ gate_resized = NotTracked

\* the realtime provider, with the race of add_signals_to_buffer against
\* the iteration of buffered_signals made by the tick
InitRealtimeRace ==
    /\ Constructed("REALTIME") /\ ViewerConstructed /\ EmptyRegistries /\ store_leaf = NoLeaf /\ ref_time = 0
    /\ percentage = NotTracked
    /\ empty_read_at = NotTracked
    /\ gate_resized = 0

\* the same providers, with the history of the percentage seeks
InitOfflineSeek ==
    /\ Constructed("OFFLINE") /\ ViewerConstructed /\ EmptyRegistries /\ store_leaf = NoLeaf /\ ref_time = 0
    /\ percentage = NoPercentage
    /\ empty_read_at = NotTracked
    /\ gate_resized = NotTracked
InitRealtimeSeek ==
    /\ Constructed("REALTIME") /\ ViewerConstructed /\ EmptyRegistries /\ store_leaf = NoLeaf /\ ref_time = 0
    /\ percentage = NoPercentage
    /\ empty_read_at = NotTracked
    /\ gate_resized = NotTracked

\* the leaves a queried path can lead to: absent from the store, or a leaf
\* of cols columns with its own timestamps; a realtime leaf can be empty
StoreLeaves(type) ==
    {NoLeaf} \cup
    [present : {TRUE},
     timestamps : LeafTimestamps \cup (IF type = "REALTIME" THEN {<<>>} ELSE {}),
     cols : 1..MaxCols]

\* a provider whose store holds the leaf of the path to query, registered
\* as a point and as a trajectory under one key, and the reference time
\* self.timestamps[index] of the query
InitQuery ==
    \E type \in {"OFFLINE", "REALTIME"} :
        /\ Constructed(type) /\ ViewerConstructed
        /\ points_path = {"left_foot"}
        /\ trajectories_path = {"left_foot"}
        /\ store_leaf \in StoreLeaves(type)
        /\ ref_time \in Times
        /\ percentage = NotTracked
        /\ empty_read_at = NotTracked
        /\ gate_resized = NotTracked

\* the leaves the registered paths lead to in the study of the registries:
\* a leaf of the store (the GUI registers items of the variable tree)
RegistryLeaves(type) ==
    {l \in StoreLeaves(type) :
        /\ l.present
        /\ Len(l.timestamps) <= 2
        /\ \A i \in 1..Len(l.timestamps) : l.timestamps[i] = 0}

\* a provider with empty registries whose store holds the leaf that the
\* paths registered later lead to
InitRegistry ==
    \E type \in {"OFFLINE", "REALTIME"} :
        /\ Constructed(type) /\ ViewerConstructed
        /\ EmptyRegistries
        /\ store_leaf \in RegistryLeaves(type)
        /\ ref_time = 0
        /\ percentage = NotTracked
        /\ empty_read_at = NotTracked
        /\ gate_resized = NotTracked
Init == InitOffline \/ InitRealtime

\* open_mat_file(): __populate_numerical_data visits the next leaf of the archive
populate_numerical_data ==
    /\ provider_type = "OFFLINE"
    /\ ~opened
    /\ open_result = NoOpen
    /\ leaves_seen < MaxLeaves
    /\ \E leaf \in LeafTimestamps :
         LET p == PopulateLeaf([ts |-> timestamps, init |-> initial_time,
                                end |-> end_time], leaf)
         IN  /\ timestamps' = p.ts
             /\ initial_time' = p.init
             /\ end_time' = p.end
    /\ leaves_seen' = leaves_seen + 1
    /\ UNCHANGED <<rd_vars, q_vars, provider_type, period, opened, state, index, current_time,
                   index_lock, pc, seen_state, tmp_index, emitted, rt_vars, closed_set>>

\* open_mat_file() on an archive whose description_list is in the top-level
\* group root, after every leaf has been visited.  root_variable is
\* file.get(self.root_name), fetched before the search of the groups: it is
\* None when the archive has no group of that name, and the test
\* "log" in root_variable.keys() raises.  Otherwise the search adopts the
\* group, the joint names are read, self.index = 0 and the call returns.
open_mat_file(root) ==
    /\ provider_type = "OFFLINE"
    /\ ~opened
    /\ open_result = NoOpen
    /\ IF root = root_name
       THEN /\ open_result' = OpenResult(root, "returned")
            /\ root_name' = root
            /\ index' = 0
            /\ opened' = TRUE
       ELSE /\ open_result' = OpenResult(root, "raised")
            /\ UNCHANGED <<root_name, index, opened>>
    /\ UNCHANGED <<rd_vars, qo_vars, realtime_network_init, provider_type, period,
                   leaves_seen, timestamps, initial_time,
                   end_time, state, current_time, index_lock, pc, seen_state,
                   tmp_index, emitted, rt_vars, closed_set>>

\* RealtimeSignalProvider.open() on a provider whose network is not
\* initialized yet.  ValueError from get_metadata() is caught and open
\* returns False; otherwise realtime_network_init is set and the
\* description list is read from the metadata, which raises KeyError when
\* the metadata is empty.
rt_open(handshake) ==
    /\ provider_type = "REALTIME"
    /\ ~opened
    /\ ~realtime_network_init
    /\ IF handshake = "ValueError"
       THEN /\ open_result' = OpenResult(handshake, "False")
            /\ UNCHANGED <<opened, realtime_network_init>>
       ELSE IF handshake = "empty"
       THEN /\ open_result' = OpenResult(handshake, "raised")
            /\ realtime_network_init' = TRUE
            /\ UNCHANGED opened
       ELSE /\ open_result' = OpenResult(handshake, "True")
            /\ realtime_network_init' = TRUE
            /\ opened' = TRUE
    /\ UNCHANGED <<rd_vars, qo_vars, root_name, provider_type, period, leaves_seen, timestamps,
                   initial_time,
                   end_time, state, index, current_time, index_lock, pc, seen_state,
                   tmp_index, emitted, rt_vars, closed_set>>

\* ------------------------------------------------------ UI-thread calls
\* state.setter
SetState(s) ==
    /\ opened
    /\ state' = s
    /\ closed_set' = (closed_set \/ s = "closed")
    /\ UNCHANGED <<rd_vars, q_vars, provider_type, period, opened, leaves_seen, timestamps, initial_time, end_time,
                   index, current_time, index_lock, pc, seen_state, tmp_index,
                   emitted, rt_vars>>

\* index.setter (the realtime provider overrides index with a read-only property)
SetIndex(i) ==
    /\ provider_type = "OFFLINE"
    /\ opened
    /\ index_lock = "free"
    /\ index' = i
    /\ UNCHANGED <<rd_vars, q_vars, provider_type, period, opened, leaves_seen, timestamps, initial_time, end_time,
                   state, current_time, index_lock, pc, seen_state, tmp_index,
                   emitted, rt_vars, closed_set>>

\* mutant of IndexProperty: the realtime provider inherits the getter
IndexPropertyInherited(type, idx, ts) == idx

\* the index property read by the GUI and the 3D visualizer: self._index,
\* overridden by the realtime provider with len(self._timestamps) - 1, or 0
\* for an empty buffer
IndexProperty(type, idx, ts) ==
    IF type = "REALTIME"
    THEN IF Len(ts) > 0 THEN Len(ts) - 1 ELSE 0
    ELSE idx

\* mutant of ClampIndex: the lower clamp is forgotten
ClampIndexNoFloor(i, n) == Min(i, n - 1)

\* max(min(index, len(self.timestamps) - 1), 0)
ClampIndex(i, n) == Max(Min(i, n - 1), 0)

\* the body of update_index(i), under QMutexLocker(self.index_lock): on an
\* empty timeline the read of timestamps[0] raises after _index has been
\* assigned
UpdateIndexLocked(i) ==
    /\ opened
    /\ index_lock = "free"
    /\ index' = ClampIndex(i, Len(timestamps))
    /\ current_time' = IF ValidIdx(timestamps, index')
                       THEN At(timestamps, index') - initial_time
                       ELSE current_time
    /\ UNCHANGED <<rd_vars, qs_vars, provider_type, period, opened, leaves_seen, timestamps, initial_time, end_time,
                   state, index_lock, pc, seen_state, tmp_index, emitted, rt_vars, closed_set>>

\* mutant of update_index: the index lock is not taken
update_index_unlocked(i) ==
    /\ opened
    /\ index' = ClampIndex(i, Len(timestamps))
    /\ current_time' = IF ValidIdx(timestamps, index')
                       THEN At(timestamps, index') - initial_time
                       ELSE current_time
    /\ UNCHANGED <<rd_vars, q_vars, provider_type, period, opened, leaves_seen, timestamps, initial_time, end_time,
                   state, index_lock, pc, seen_state, tmp_index, emitted, rt_vars, closed_set>>

\* update_index(i) called by the GUI
update_index(i) == UpdateIndexLocked(i) /\ UNCHANGED percentage

\* mutant of PercentageIndex: round(percentage * len(self)), halves to even
PercentageIndexRound(k, n) ==
    LET q == (k * n) \div PctSteps
        r == (k * n) % PctSteps
    IN  IF 2 * r < PctSteps THEN q
        ELSE IF 2 * r > PctSteps THEN q + 1
        ELSE IF q % 2 = 0 THEN q ELSE q + 1

\* int(percentage * len(self)) for percentage = k / PctSteps in [0, 1]
PercentageIndex(k, n) == (k * n) \div PctSteps

\* set_dataset_percentage(percentage): self.update_index(int(percentage * len(self)))
set_dataset_percentage(k) ==
    /\ UpdateIndexLocked(PercentageIndex(k, Len(timestamps)))
    /\ percentage' = IF percentage = NotTracked THEN NotTracked ELSE k

\* mutant of add_signals_to_buffer: the set is replaced by the new selection
add_signals_to_buffer_replace(signals) ==
    /\ provider_type = "REALTIME"
    /\ opened
    /\ buffered_signals' = signals
    /\ UNCHANGED <<gate_resized, rd_vars, q_vars, provider_type, period, opened, leaves_seen, timestamps, initial_time, end_time,
                   state, index, current_time, index_lock, pc, seen_state, tmp_index,
                   emitted, data, vc_input, frames, received, empty_read_at, closed_set>>

\* add_signals_to_buffer(signals): update the set, then add the joint
\* positions again.  No lock is taken: the call can land while the tick
\* holds the index lock and is iterating the set.
add_signals_to_buffer(signals) ==
    /\ provider_type = "REALTIME"
    /\ opened
    /\ buffered_signals' = (buffered_signals \cup signals) \cup {JointsKey}
    /\ gate_resized' = IF gate_resized = NotTracked THEN NotTracked
                       ELSE IF pc = "ingest" /\ buffered_signals' # buffered_signals
                            THEN 1 ELSE gate_resized
    /\ UNCHANGED <<rd_vars, q_vars, provider_type, period, opened, leaves_seen, timestamps, initial_time, end_time,
                   state, index, current_time, index_lock, pc, seen_state, tmp_index,
                   emitted, data, vc_input, frames, received, empty_read_at, closed_set>>

\* ------------------------------------------------- the provider thread
\* QThread.start(), called by the GUI after a successful open
start ==
    /\ opened
    /\ pc = "idle"
    /\ pc' = "top"
    /\ UNCHANGED <<rd_vars, q_vars, provider_type, period, opened, leaves_seen, timestamps, initial_time, end_time,
                   state, index, current_time, index_lock, seen_state, tmp_index,
                   emitted, rt_vars, closed_set>>

\* mutant of RunTop: every state but closed runs the tick body
RunTopNotClosed ==
    /\ pc = "top"
    /\ seen_state' = state
    /\ emitted' = 0
    /\ pc' = IF state # "closed" THEN "body" ELSE "check"
    /\ UNCHANGED <<rd_vars, q_vars, provider_type, period, opened, leaves_seen, timestamps, initial_time, end_time,
                   state, index, current_time, index_lock, tmp_index, rt_vars, closed_set>>

\* run(): "if self.state == PeriodicThreadState.running" at the top of an
\* iteration; when the test fails the thread sleeps out the period and
\* arrives at the exit check
RunTop ==
    /\ pc = "top"
    /\ seen_state' = state
    /\ emitted' = 0
    /\ pc' = IF state = "running" THEN "body" ELSE "check"
    /\ UNCHANGED <<rd_vars, q_vars, provider_type, period, opened, leaves_seen, timestamps, initial_time, end_time,
                   state, index, current_time, index_lock, tmp_index, rt_vars, closed_set>>

\* SignalProvider.run(): self.index_lock.lock(); tmp_index = self._index
RunLock ==
    /\ provider_type = "OFFLINE"
    /\ pc = "body"
    /\ index_lock = "free"
    /\ index_lock' = "provider"
    /\ tmp_index' = index
    /\ pc' = "advance"
    /\ UNCHANGED <<rd_vars, q_vars, provider_type, period, opened, leaves_seen, timestamps, initial_time, end_time,
                   state, index, current_time, seen_state, emitted, rt_vars, closed_set>>

\* mutant of ScanFrom: the scan restarts from the first sample at every tick
RECURSIVE ScanRestartLoop(_, _, _, _)
ScanRestartLoop(ts, init, ct, i) ==
    IF ~ValidIdx(ts, i) THEN [raised |-> TRUE, idx |-> i]
    ELSE IF ct > At(ts, i) - init
         THEN ScanRestartLoop(ts, init, ct, i + 1)
         ELSE [raised |-> FALSE, idx |-> i]
ScanRestart(ts, init, ct, i) == ScanRestartLoop(ts, init, ct, 0)

\* mutant of ScanFrom: the loop condition is >= instead of >
RECURSIVE ScanGeq(_, _, _, _)
ScanGeq(ts, init, ct, i) ==
    IF ~ValidIdx(ts, i) THEN [raised |-> TRUE, idx |-> i]
    ELSE IF ct >= At(ts, i) - init
         THEN IF i + 1 > Len(ts)
              THEN [raised |-> FALSE, idx |-> i + 1]
              ELSE ScanGeq(ts, init, ct, i + 1)
         ELSE [raised |-> FALSE, idx |-> i]

\* mutant of ScanFrom: a single "if" step instead of the while loop
ScanOnce(ts, init, ct, i) ==
    IF ~ValidIdx(ts, i) THEN [raised |-> TRUE, idx |-> i]
    ELSE IF ct > At(ts, i) - init
         THEN [raised |-> FALSE, idx |-> Min(i + 1, Len(ts) - 1)]
         ELSE [raised |-> FALSE, idx |-> i]

\* run(): the while loop that moves tmp_index forward until
\* timestamps[tmp_index] - initial_time reaches ct; reading past the end raises
RECURSIVE ScanFrom(_, _, _, _)
ScanFrom(ts, init, ct, i) ==
    IF ~ValidIdx(ts, i) THEN [raised |-> TRUE, idx |-> i]
    ELSE IF ct > At(ts, i) - init
         THEN IF i + 1 > Len(ts)
              THEN [raised |-> FALSE, idx |-> i + 1]
              ELSE ScanFrom(ts, init, ct, i + 1)
         ELSE [raised |-> FALSE, idx |-> i]

\* mutant of AdvanceClock: the clock is not clamped to the end of the timeline
AdvanceClockUnclamped(ct, per, ts, init) == ct + per

\* the new _current_time of a tick: one period later, clamped to the end
AdvanceClock(ct, per, ts, init) == Min(ct + per, At(ts, -1) - init)

\* SignalProvider.run(): the clock update, the scan, the store of _index and
\* the unlock.  An IndexError leaves the thread dead with the lock held and
\* the partial update of _current_time in place.
RunAdvance ==
    /\ pc = "advance"
    /\ IF Len(timestamps) = 0
       THEN /\ current_time' = current_time + period
            /\ pc' = "dead"
            /\ UNCHANGED <<index, index_lock>>
       ELSE LET t2 == AdvanceClock(current_time, period, timestamps, initial_time)
                r  == ScanFrom(timestamps, initial_time, t2, tmp_index)
            IN  /\ current_time' = t2
                /\ IF r.raised
                   THEN /\ pc' = "dead"
                        /\ UNCHANGED <<index, index_lock>>
                   ELSE /\ index' = r.idx
                        /\ index_lock' = "free"
                        /\ pc' = "emit"
    /\ UNCHANGED <<rd_vars, q_vars, provider_type, period, opened, leaves_seen, timestamps, initial_time, end_time,
                   state, seen_state, tmp_index, emitted, rt_vars, closed_set>>

\* mutant of RtRead: an empty result is not skipped
RtReadNoSkip ==
    /\ provider_type = "REALTIME"
    /\ pc = "body"
    /\ \/ /\ vc_input' = NoFrame
          /\ pc' = "rtlock"
          /\ empty_read_at' = IF empty_read_at = NotTracked THEN NotTracked ELSE frames
          /\ UNCHANGED frames
       \/ /\ frames < MaxFrames
          /\ vc_input' \in Frames
          /\ frames' = frames + 1
          /\ pc' = "rtlock"
          /\ UNCHANGED empty_read_at
    /\ UNCHANGED <<rd_vars, q_vars, provider_type, period, opened, leaves_seen, timestamps, initial_time, end_time,
                   state, index, current_time, index_lock, seen_state, tmp_index,
                   emitted, buffered_signals, data, received, gate_resized, closed_set>>

\* RealtimeSignalProvider.run(): vc_input = read_data(True).vectors; an empty
\* result skips the ingestion
RtRead ==
    /\ provider_type = "REALTIME"
    /\ pc = "body"
    /\ \/ /\ vc_input' = NoFrame
          /\ pc' = "emit"
          /\ empty_read_at' = IF empty_read_at = NotTracked THEN NotTracked ELSE frames
          /\ UNCHANGED frames
       \/ /\ frames < MaxFrames
          /\ vc_input' \in Frames
          /\ frames' = frames + 1
          /\ pc' = "rtlock"
          /\ UNCHANGED empty_read_at
    /\ UNCHANGED <<rd_vars, q_vars, provider_type, period, opened, leaves_seen, timestamps, initial_time, end_time,
                   state, index, current_time, index_lock, seen_state, tmp_index,
                   emitted, buffered_signals, data, received, gate_resized, closed_set>>

\* RealtimeSignalProvider.run(): self.index_lock.lock()
RtLock ==
    /\ pc = "rtlock"
    /\ index_lock = "free"
    /\ index_lock' = "provider"
    /\ pc' = "ingest"
    /\ UNCHANGED <<rd_vars, q_vars, provider_type, period, opened, leaves_seen, timestamps, initial_time, end_time,
                   state, index, current_time, seen_state, tmp_index, emitted, rt_vars, closed_set>>

\* mutant of EvictOld: a sample exactly one window old is evicted too
RECURSIVE EvictOldGeq(_, _)
EvictOldGeq(q, recent) ==
    IF q # <<>> /\ recent - Head(q) >= realtime_fixed_plot_window
    THEN EvictOldGeq(Tail(q), recent)
    ELSE q

\* "while q and recent - q[0] > window: q.popleft()"
RECURSIVE EvictOld(_, _)
EvictOld(q, recent) ==
    IF q # <<>> /\ recent - Head(q) > realtime_fixed_plot_window
    THEN EvictOld(Tail(q), recent)
    ELSE q

\* mutant of StartsWith: the test is made the other way round, key.startswith(sel)
StartsWithReversed(sel, key) ==
    /\ Len(sel) <= Len(key)
    /\ SubSeq(key, 1, Len(sel)) = sel

\* StartsWith(sel, key): sel.startswith(key)
StartsWith(sel, key) ==
    /\ Len(key) <= Len(sel)
    /\ SubSeq(sel, 1, Len(key)) = key

\* any(sel.startswith(key_string) for sel in self.buffered_signals)
Buffered(key, selected) == \E sel \in selected : StartsWith(sel, key)

\* mutant of EvictLeaf: only the timestamps deque is trimmed
RECURSIVE EvictLeafTimestampsOnly(_, _)
EvictLeafTimestampsOnly(l, recent) ==
    IF l.timestamps # <<>> /\ recent - Head(l.timestamps) > realtime_fixed_plot_window
    THEN EvictLeafTimestampsOnly([data |-> l.data, timestamps |-> Tail(l.timestamps)], recent)
    ELSE l

\* _update_data_buffer: "while timestamps and recent - timestamps[0] > window:
\* data.popleft(); timestamps.popleft()"
RECURSIVE EvictLeaf(_, _)
EvictLeaf(l, recent) ==
    IF l.timestamps # <<>> /\ recent - Head(l.timestamps) > realtime_fixed_plot_window
    THEN EvictLeaf([data |-> Tail(l.data), timestamps |-> Tail(l.timestamps)], recent)
    ELSE l

\* _update_data_buffer at the leaf: append the value and its timestamp, then evict
UpdateDataBuffer(l, value, recent) ==
    EvictLeaf([data |-> Append(l.data, value),
               timestamps |-> Append(l.timestamps, recent)], recent)

\* RealtimeSignalProvider.run(): the ingestion of one frame under the index
\* lock.  A frame without the timestamps entry raises KeyError after the
\* lock has been taken.  The gate of a key iterates buffered_signals: when
\* the set has grown during the loop over the keys, the iterator of the
\* gate in progress either had finished (the tick completes) or raises
\* RuntimeError (set changed size during iteration) at a key, after the
\* keys in done have been handled.
RtIngest ==
    /\ pc = "ingest"
    /\ IF ~vc_input.has_ts
       THEN /\ pc' = "dead"
            /\ UNCHANGED <<timestamps, initial_time, end_time, data, index_lock,
                           vc_input, received, gate_resized>>
       ELSE LET recent == vc_input.ts
                q == EvictOld(Append(timestamps, recent), recent)
                matched == {k \in vc_input.keys : Buffered(k, buffered_signals)}
            IN  /\ timestamps' = q
                /\ initial_time' = IF q # <<>> THEN Head(q) ELSE initial_time
                /\ end_time' = IF q # <<>> THEN q[Len(q)] ELSE end_time
                /\ \/ /\ data' = [k \in FrameKeys |->
                                    IF k \in matched
                                    THEN UpdateDataBuffer(data[k], recent, recent)
                                    ELSE data[k]]
                      /\ received' = Append(received, recent)
                      /\ index_lock' = "free"
                      /\ vc_input' = NoFrame
                      /\ gate_resized' = IF gate_resized = NotTracked THEN NotTracked ELSE 0
                      /\ pc' = "emit"
                   \/ /\ gate_resized = 1
                      /\ \E done \in (SUBSET vc_input.keys) \ {vc_input.keys} :
                            data' = [k \in FrameKeys |->
                                       IF k \in matched \cap done
                                       THEN UpdateDataBuffer(data[k], recent, recent)
                                       ELSE data[k]]
                      /\ pc' = "dead"
                      /\ UNCHANGED <<index_lock, vc_input, received, gate_resized>>
    /\ UNCHANGED <<rd_vars, q_vars, provider_type, period, opened, leaves_seen, state, index, current_time,
                   seen_state, tmp_index, emitted, buffered_signals, frames,
                   empty_read_at, closed_set>>

\* run(): self.update_index_signal.emit(), then the sleep to the end of the
\* period; tmp_index is not read again before the next lock assigns it
RunEmit ==
    /\ pc = "emit"
    /\ emitted' = emitted + 1
    /\ tmp_index' = 0
    /\ pc' = "check"
    /\ UNCHANGED <<rd_vars, q_vars, provider_type, period, opened, leaves_seen, timestamps, initial_time, end_time,
                   state, index, current_time, index_lock, seen_state,
                   rt_vars, closed_set>>

\* mutant of RunCheckClosed: the exit test uses the state read at the top
RunCheckClosedStale ==
    /\ pc = "check"
    /\ IF seen_state = "closed"
       THEN pc' = "done" /\ UNCHANGED <<seen_state, emitted>>
       ELSE pc' = "top" /\ seen_state' = "pause" /\ emitted' = 0
    /\ UNCHANGED <<rd_vars, q_vars, provider_type, period, opened, leaves_seen, timestamps, initial_time, end_time,
                   state, index, current_time, index_lock, tmp_index,
                   rt_vars, closed_set>>

\* run(): "if self.state == PeriodicThreadState.closed: return"; going round
\* the loop ends the iteration, and with it what was observed of it
RunCheckClosed ==
    /\ pc = "check"
    /\ IF state = "closed"
       THEN pc' = "done" /\ UNCHANGED <<seen_state, emitted>>
       ELSE pc' = "top" /\ seen_state' = "pause" /\ emitted' = 0
    /\ UNCHANGED <<rd_vars, q_vars, provider_type, period, opened, leaves_seen, timestamps, initial_time, end_time,
                   state, index, current_time, index_lock, tmp_index,
                   rt_vars, closed_set>>

\* ------------------------------------------------------ a reader thread
\* get_item_from_path, "return data["data"], data["timestamps"]": the first
\* element of the pair, a copy of the leaf's data deque; no lock is taken
ReadLeafData(k) ==
    /\ provider_type = "REALTIME"
    /\ opened
    /\ rd_pc = "idle"
    /\ rd_leaf' = k
    /\ rd_data' = data[k].data
    /\ rd_pc' = "data_read"
    /\ UNCHANGED <<rd_timestamps, q_vars, provider_type, period, opened, leaves_seen,
                   timestamps, initial_time, end_time, state, index, current_time,
                   index_lock, pc, seen_state, tmp_index, emitted, rt_vars, closed_set>>

\* get_item_from_path: the second element of the pair, a copy of the leaf's
\* timestamps deque
ReadLeafTimestamps ==
    /\ rd_pc = "data_read"
    /\ rd_timestamps' = data[rd_leaf].timestamps
    /\ rd_pc' = "returned"
    /\ UNCHANGED <<rd_leaf, rd_data, q_vars, provider_type, period, opened, leaves_seen,
                   timestamps, initial_time, end_time, state, index, current_time,
                   index_lock, pc, seen_state, tmp_index, emitted, rt_vars, closed_set>>

\* the caller is done with the pair
ReadReturn ==
    /\ rd_pc = "returned"
    /\ rd_pc' = "idle"
    /\ rd_leaf' = JointsKey
    /\ rd_data' = <<>>
    /\ rd_timestamps' = <<>>
    /\ UNCHANGED <<q_vars, provider_type, period, opened, leaves_seen,
                   timestamps, initial_time, end_time, state, index, current_time,
                   index_lock, pc, seen_state, tmp_index, emitted, rt_vars, closed_set>>

\* ------------------------------------------------------- the query API
Abs(x) == IF x >= 0 THEN x ELSE -x

\* mutant of ArgMinFrom: among equally close rows the last one wins
RECURSIVE ArgMinLast(_, _, _)
ArgMinLast(d, k, best) ==
    IF k > Len(d) THEN best
    ELSE ArgMinLast(d, k + 1, IF d[k] <= d[best] THEN k ELSE best)

\* np.argmin: a scan that keeps the first position of the minimum
RECURSIVE ArgMinFrom(_, _, _)
ArgMinFrom(d, k, best) ==
    IF k > Len(d) THEN best
    ELSE ArgMinFrom(d, k + 1, IF d[k] < d[best] THEN k ELSE best)

\* closest_index = np.argmin(np.abs(timestamps - self.timestamps[index])), 0-based
ClosestIndex(ts, ref) ==
    ArgMinFrom([k \in 1..Len(ts) |-> Abs(ts[k] - ref)], 1, 1) - 1

\* the content of row r, column j of a leaf's data
Cell(r, j) == 10 * (r + 1) + j
\* data[r, :]
Row(l, r) == [j \in 1..l.cols |-> Cell(r, j)]
\* data[a:b, :]
Rows(l, a, b) == [i \in 1..(b - a) |-> Row(l, a + i - 1)]

\* the number of axes of a leaf's data array: the loader squeezes a
\* one-column leaf to a vector, the realtime buffer stacks the frame vectors
DataNdim(type, l) == IF type = "OFFLINE" /\ l.cols = 1 THEN 1 ELSE 2

\* mutant of WindowEnd: the row c + neighbor is left out
WindowEndShort(n, c, neighbor) == Min(n, c + neighbor)

\* initial_index = max(0, closest_index - neighbor)
WindowStart(c, neighbor) == Max(0, c - neighbor)
\* end_index = min(len(timestamps), closest_index + neighbor + 1)
WindowEnd(n, c, neighbor) == Min(n, c + neighbor + 1)

\* get_item_from_path_at_index(path, index, neighbor=...), as called from call.
\* get_item_from_path raises KeyError on a segment absent from the store; the
\* realtime override returns the last row, or None for an empty leaf; the
\* offline one indexes data[closest_index, :], which raises IndexError on a
\* one-axis array
GetItemAtIndex(call, type, l, ref, neighbor) ==
    IF ~l.present THEN QueryResult(call, neighbor, "raised", <<>>, <<>>)
    ELSE IF type = "REALTIME"
    THEN IF Len(l.timestamps) = 0
         THEN QueryResult(call, neighbor, "None", <<>>, <<>>)
         ELSE LET r == Len(l.timestamps) - 1
              IN  QueryResult(call, neighbor, "row", <<r>>, Row(l, r))
    ELSE LET c == ClosestIndex(l.timestamps, ref)
             a == WindowStart(c, neighbor)
             b == WindowEnd(Len(l.timestamps), c, neighbor)
         IN  IF DataNdim(type, l) = 1
             THEN QueryResult(call, neighbor, "raised", <<>>, <<>>)
             ELSE IF neighbor = 0
                  THEN QueryResult(call, neighbor, "row", <<c>>, Row(l, c))
                  ELSE QueryResult(call, neighbor, "rows",
                                   [i \in 1..(b - a) |-> a + i - 1], Rows(l, a, b))

\* np.concatenate((v, np.zeros(3 - v.shape[0]))) when v.shape[0] < 3
PadTo3(v) == IF Len(v) < 3 THEN v \o [i \in 1..(3 - Len(v)) |-> 0] ELSE v

\* get_item_from_path_at_index called directly
get_item_from_path_at_index(neighbor) ==
    /\ result' = GetItemAtIndex("item", provider_type, store_leaf, ref_time, neighbor)
    /\ UNCHANGED <<rd_vars, store_leaf, ref_time, reg_vars, percentage, open_vars,
                   robot_state_path_lock, viewer_vars,
                   provider_type, period, opened, leaves_seen,
                   timestamps, initial_time, end_time, state, index, current_time,
                   index_lock, pc, seen_state, tmp_index, emitted, rt_vars, closed_set>>

\* get_3d_point_at_index: lock, resolve and pad the path of every registered
\* key (every path leads to the store leaf), unlock, return the dict; an
\* exception (also the .shape of None) leaves the lock held and returns nothing
get_3d_point_at_index ==
    /\ points_path_lock = "free"
    /\ IF points_path = {}
       THEN /\ result' = QueryResult("point", 0, "empty", <<>>, <<>>)
            /\ points' = {}
            /\ points_path_lock' = "free"
       ELSE LET item == GetItemAtIndex("point", provider_type, store_leaf, ref_time, 0)
            IN  IF item.kind = "row"
                THEN /\ result' = [item EXCEPT !.value = PadTo3(item.value)]
                     /\ points' = points_path
                     /\ points_path_lock' = "free"
                ELSE /\ result' = [item EXCEPT !.kind = "raised"]
                     /\ points' = {}
                     /\ points_path_lock' = "query"
    /\ UNCHANGED <<rd_vars, store_leaf, ref_time, trajectories_path_lock,
                   points_path, trajectories_path, trajectories, reg_call,
                   percentage, open_vars, robot_state_path_lock, viewer_vars,
                   provider_type, period, opened, leaves_seen,
                   timestamps, initial_time, end_time, state, index, current_time,
                   index_lock, pc, seen_state, tmp_index, emitted, rt_vars, closed_set>>

\* get_3d_trajectory_at_index: lock, resolve with neighbor = trajectory_span
\* and pad every row of the path of every registered key, unlock, return the
\* dict; shape[1] of a single row raises IndexError
get_3d_trajectory_at_index ==
    /\ trajectories_path_lock = "free"
    /\ IF trajectories_path = {}
       THEN /\ result' = QueryResult("trajectory", trajectory_span, "empty", <<>>, <<>>)
            /\ trajectories' = {}
            /\ trajectories_path_lock' = "free"
       ELSE LET item == GetItemAtIndex("trajectory", provider_type, store_leaf, ref_time,
                                       trajectory_span)
            IN  IF item.kind = "rows"
                THEN /\ result' = [item EXCEPT !.value =
                                      [i \in 1..Len(item.value) |-> PadTo3(item.value[i])]]
                     /\ trajectories' = trajectories_path
                     /\ trajectories_path_lock' = "free"
                ELSE /\ result' = [item EXCEPT !.kind = "raised"]
                     /\ trajectories' = {}
                     /\ trajectories_path_lock' = "query"
    /\ UNCHANGED <<rd_vars, store_leaf, ref_time, points_path_lock,
                   points_path, trajectories_path, points, reg_call,
                   percentage, open_vars, robot_state_path_lock, viewer_vars,
                   provider_type, period, opened, leaves_seen,
                   timestamps, initial_time, end_time, state, index, current_time,
                   index_lock, pc, seen_state, tmp_index, emitted, rt_vars, closed_set>>

\* get_robot_state_at_index: lock; resolve the joints path (the default
\* path joints_state/positions when none is set), the base position path
\* and the base orientation path; unlock; the base items that are None
\* become zeros.  The paths lead to the store leaf.  An exception of
\* get_item_from_path_at_index leaves the lock held and returns nothing.
get_robot_state_at_index ==
    /\ robot_state_path_lock = "free"
    /\ LET item == GetItemAtIndex("robot_state", provider_type, store_leaf, ref_time, 0)
       IN  /\ result' = item
           /\ robot_state_path_lock' = IF item.kind = "raised" THEN "query" ELSE "free"
    /\ UNCHANGED <<rd_vars, store_leaf, ref_time, reg_vars, percentage, open_vars,
                   viewer_vars, provider_type, period, opened, leaves_seen,
                   timestamps, initial_time, end_time, state, index, current_time,
                   index_lock, pc, seen_state, tmp_index, emitted, rt_vars, closed_set>>

\* ------------------------------------------------------- the registries
\* the other state of the provider, which the registry calls leave alone
prov_vars == <<provider_type, period, opened, leaves_seen, timestamps, initial_time,
               end_time, state, index, current_time, index_lock, pc, seen_state,
               tmp_index, emitted, rt_vars, closed_set, percentage, open_vars,
               robot_state_path_lock, viewer_vars>>

\* the record of a register/unregister call
RegCall(op, key, raised) == [op |-> op, key |-> key, raised |-> raised]

\* register_3d_point(key, points_path): lock; self._3d_points_path[key] = path; unlock
register_3d_point(key) ==
    /\ points_path_lock = "free"
    /\ points_path' = points_path \cup {key}
    /\ reg_call' = RegCall("register_3d_point", key, FALSE)
    /\ UNCHANGED <<rd_vars, prov_vars, store_leaf, ref_time, result, points_path_lock,
                   trajectories_path_lock, trajectories_path, points, trajectories>>

\* unregister_3d_point(key): lock; del self._3d_points_path[key]; unlock.
\* del raises KeyError on a key that is not in the dict, after the lock
\* has been taken
unregister_3d_point(key) ==
    /\ points_path_lock = "free"
    /\ IF key \in points_path
       THEN /\ points_path' = points_path \ {key}
            /\ points_path_lock' = "free"
            /\ reg_call' = RegCall("unregister_3d_point", key, FALSE)
       ELSE /\ points_path' = points_path
            /\ points_path_lock' = "unregister"
            /\ reg_call' = RegCall("unregister_3d_point", key, TRUE)
    /\ UNCHANGED <<rd_vars, prov_vars, store_leaf, ref_time, result,
                   trajectories_path_lock, trajectories_path, points, trajectories>>

\* register_3d_trajectory(key, trajectory_path)
register_3d_trajectory(key) ==
    /\ trajectories_path_lock = "free"
    /\ trajectories_path' = trajectories_path \cup {key}
    /\ reg_call' = RegCall("register_3d_trajectory", key, FALSE)
    /\ UNCHANGED <<rd_vars, prov_vars, store_leaf, ref_time, result, points_path_lock,
                   trajectories_path_lock, points_path, points, trajectories>>

\* unregister_3d_trajectory(key): lock; del self._3d_trajectories_path[key]; unlock
unregister_3d_trajectory(key) ==
    /\ trajectories_path_lock = "free"
    /\ IF key \in trajectories_path
       THEN /\ trajectories_path' = trajectories_path \ {key}
            /\ trajectories_path_lock' = "free"
            /\ reg_call' = RegCall("unregister_3d_trajectory", key, FALSE)
       ELSE /\ trajectories_path' = trajectories_path
            /\ trajectories_path_lock' = "unregister"
            /\ reg_call' = RegCall("unregister_3d_trajectory", key, TRUE)
    /\ UNCHANGED <<rd_vars, prov_vars, store_leaf, ref_time, result,
                   points_path_lock, points_path, points, trajectories>>

\* one step of the provider thread
run ==
    \/ RunTop
    \/ RunLock
    \/ RunAdvance
    \/ RtRead
    \/ RtLock
    \/ RtIngest
    \/ RunEmit
    \/ RunCheckClosed

\* the offline provider: the GUI thread's calls and the playback thread
OfflineNext ==
    \/ populate_numerical_data
    \/ \E root \in ArchiveRoots : open_mat_file(root)
    \/ \E s \in PeriodicThreadState : SetState(s)
    \/ \E i \in (-1)..MaxLen : SetIndex(i)
    \/ \E i \in (-2)..(MaxLen + 2) : update_index(i)
    \/ \E k \in 0..PctSteps : set_dataset_percentage(k)
    \/ start
    \/ RunTop
    \/ RunLock
    \/ RunAdvance
    \/ RunEmit
    \/ RunCheckClosed

\* the realtime provider: the GUI thread's calls and the ingestion thread
RealtimeNext ==
    \/ \E handshake \in Handshakes : rt_open(handshake)
    \/ \E s \in PeriodicThreadState : SetState(s)
    \/ \E i \in (-2)..(MaxLen + 2) : update_index(i)
    \/ \E k \in 0..PctSteps : set_dataset_percentage(k)
    \/ \E sigs \in SUBSET SelectableSignals : add_signals_to_buffer(sigs)
    \/ start
    \/ RunTop
    \/ RtRead
    \/ RtLock
    \/ RtIngest
    \/ RunEmit
    \/ RunCheckClosed

Next == OfflineNext \/ RealtimeNext

\* either provider
Spec == Init /\ [][Next]_vars

\* the offline provider alone
OfflineSpec == InitOffline /\ [][OfflineNext]_vars

\* the realtime provider alone
RealtimeSpec == InitRealtime /\ [][RealtimeNext]_vars

\* the scheduler runs the provider thread whenever it can take a step
FairSpec == Spec /\ WF_vars(run)

\* the life of the thread of either provider: the provider is opened, its
\* thread is started and the UI thread assigns its state
LifecycleNext ==
    \/ populate_numerical_data
    \/ \E root \in ArchiveRoots : open_mat_file(root)
    \/ \E handshake \in Handshakes : rt_open(handshake)
    \/ \E s \in PeriodicThreadState : SetState(s)
    \/ start
    \/ run

LifecycleSpec == Init /\ [][LifecycleNext]_vars /\ WF_vars(run)

\* the realtime provider and a thread that reads leaves through the query API
ReaderNext ==
    \/ RealtimeNext
    \/ \E k \in FrameKeys : ReadLeafData(k)
    \/ ReadLeafTimestamps
    \/ ReadReturn

ReaderSpec == InitRealtime /\ [][ReaderNext]_vars

\* the calls of the query API on a store leaf
QueryNext ==
    \/ \E neighbor \in 0..MaxNeighbor : get_item_from_path_at_index(neighbor)
    \/ get_3d_point_at_index
    \/ get_3d_trajectory_at_index

QuerySpec == InitQuery /\ [][QueryNext]_vars

\* the offline provider and the seeks of the GUI thread, with the history
\* of the percentage seeks
SeekNext ==
    \/ populate_numerical_data
    \/ \E root \in ArchiveRoots : open_mat_file(root)
    \/ \E i \in (-2)..(MaxLen + 2) : update_index(i)
    \/ \E k \in 0..PctSteps : set_dataset_percentage(k)

SeekSpec == InitOfflineSeek /\ [][SeekNext]_vars

\* one step of the thread of an offline provider: run() without the
\* realtime branch
run_offline ==
    \/ RunTop
    \/ RunLock
    \/ RunAdvance
    \/ RunEmit
    \/ RunCheckClosed

\* playback: the offline provider positioned by seeks before its thread is
\* started, and then left to the thread and to the start/pause buttons
PlaybackNext ==
    \/ populate_numerical_data
    \/ \E root \in ArchiveRoots : open_mat_file(root)
    \/ \E i \in (-2)..(MaxLen + 2) : (pc = "idle" /\ update_index(i))
    \/ \E s \in PeriodicThreadState : SetState(s)
    \/ start
    \/ run_offline

PlaybackSpec == InitOffline /\ [][PlaybackNext]_vars /\ WF_vars(run_offline)

\* the realtime provider, with the history of the percentage seeks
RealtimeSeekSpec == InitRealtimeSeek /\ [][RealtimeNext]_vars

\* the realtime provider, with the race of add_signals_to_buffer against the tick
RaceSpec == InitRealtimeRace /\ [][RealtimeNext]_vars

\* the realtime provider, with the history of the reads that returned no data
RealtimeTickSpec == InitRealtimeTick /\ [][RealtimeNext]_vars

\* the registry calls of the GUI thread and the queries of the 3D visualizer
RegistryNext ==
    \/ \E key \in RegKeys : register_3d_point(key)
    \/ \E key \in RegKeys : unregister_3d_point(key)
    \/ \E key \in RegKeys : register_3d_trajectory(key)
    \/ \E key \in RegKeys : unregister_3d_trajectory(key)
    \/ get_3d_point_at_index
    \/ get_3d_trajectory_at_index

RegistrySpec == InitRegistry /\ [][RegistryNext]_vars

\* every call of the GUI thread and of the 3D visualizer that takes one of
\* the path locks of the provider
LockNext ==
    \/ RegistryNext
    \/ get_robot_state_at_index

LockSpec == InitRegistry /\ [][LockNext]_vars

\* ----------------------------------------------------------------------
\* The main window: the handlers that create, replace and discard the
\* provider and that show and remove the 3D overlays
\* ----------------------------------------------------------------------
\* what the handlers of the main window leave alone: the content of the
\* provider, the threads, the readers and the visualizer thread
gui_frame == <<rd_vars, period, opened, leaves_seen, timestamps, initial_time, end_time,
               state, index, current_time, index_lock, pc, seen_state, tmp_index,
               emitted, rt_vars, closed_set, percentage, open_vars,
               robot_state_path_lock, store_leaf, ref_time, result, points,
               trajectories, reg_call, meshcat_visualizer_mutex, mc_pc, mc_items,
               mc_key>>

\* the three kinds of 3D overlay
OverlayKinds == {"point", "trajectory", "arrow"}

\* the number the next provider object gets
NextProvider == Cardinality({n \in 1..MaxProviders : providers[n].type # "none"}) + 1

\* update_index_signal.disconnect(self.update_index); state = closed; wait()
Stopped(p) == [p EXCEPT !.connected = FALSE, !.state = "closed", !.waited = TRUE]

\* the provider records after the current provider, if any, has been stopped
StopCurrent ==
    IF signal_provider = 0 THEN providers
    ELSE [providers EXCEPT ![signal_provider] = Stopped(@)]

\* a provider object has just been constructed: its registries are empty
\* and its locks are free
FreshProvider(type) ==
    /\ provider_type' = type
    /\ points_path' = {}
    /\ trajectories_path' = {}
    /\ arrows_path' = {}
    /\ points_path_lock' = "free"
    /\ trajectories_path_lock' = "free"

\* _clear_visualization_items(): unregister every visualized key from the
\* visualizer (a key the visualizer does not hold is skipped: KeyError is
\* caught, pop has a default) and clear the three sets of the window; the
\* registries of the provider are not touched
Cleared(registered, visualized) == registered \ visualized

\* _load_mat_file(file_name) on a file that exists: _prepare_for_new_dataset()
\* stops the current provider and clears the overlays, then a new offline
\* provider is constructed and opened; if open() raises the window is left
\* without provider, else the provider is started and its update signal is
\* connected and "Realtime Connect" is disabled
load_mat_file(readable) ==
    /\ ~window_closed
    /\ NextProvider <= MaxProviders
    /\ meshcat_visualizer_mutex = "free"
    /\ IF readable
       THEN /\ providers' = [StopCurrent EXCEPT ![NextProvider] =
                                Provider("OFFLINE", TRUE, "pause", FALSE, TRUE)]
            /\ signal_provider' = NextProvider
            /\ actionRealtime_Connect' = FALSE
       ELSE /\ providers' = [StopCurrent EXCEPT ![NextProvider] =
                                Provider("OFFLINE", FALSE, "pause", FALSE, FALSE)]
            /\ signal_provider' = 0
            /\ actionRealtime_Connect' = TRUE
    /\ _registered_3d_points' = Cleared(_registered_3d_points, visualized_3d_points)
    /\ _registered_3d_trajectories' =
           Cleared(_registered_3d_trajectories, visualized_3d_trajectories)
    /\ _register_3d_arrow' = Cleared(_register_3d_arrow, visualized_3d_arrows)
    /\ visualized_3d_points' = {}
    /\ visualized_3d_trajectories' = {}
    /\ visualized_3d_arrows' = {}
    /\ FreshProvider("OFFLINE")
    /\ UNCHANGED <<gui_frame, window_closed>>

\* connect_realtime_logger(): a new realtime provider is assigned to
\* self.signal_provider, whatever the window held before; open() returning
\* False sets self.signal_provider to None, open() raising leaves the handler
\* with the new provider assigned and not started, else the provider is set
\* running, started and handed to the plots, which connect their slots
connect_realtime_logger(handshake) ==
    /\ ~window_closed
    /\ actionRealtime_Connect
    /\ NextProvider <= MaxProviders
    /\ IF handshake = "metadata"
       THEN /\ providers' = [providers EXCEPT ![NextProvider] =
                                Provider("REALTIME", TRUE, "running", FALSE, TRUE)]
            /\ signal_provider' = NextProvider
       ELSE /\ providers' = [providers EXCEPT ![NextProvider] =
                                Provider("REALTIME", FALSE, "pause", FALSE, FALSE)]
            /\ signal_provider' = IF handshake = "empty" THEN NextProvider ELSE 0
    /\ FreshProvider("REALTIME")
    /\ UNCHANGED <<gui_frame, actionRealtime_Connect, window_closed,
                   visualized_3d_points, visualized_3d_trajectories,
                   visualized_3d_arrows, _registered_3d_points,
                   _registered_3d_trajectories, _register_3d_arrow>>

\* closeEvent(event): the current provider, if any, is disconnected, closed
\* and waited for, then dropped
closeEvent ==
    /\ ~window_closed
    /\ providers' = StopCurrent
    /\ signal_provider' = 0
    /\ window_closed' = TRUE
    /\ UNCHANGED <<gui_frame, actionRealtime_Connect, provider_type, reg_vars,
                   arrows_path, visualized_3d_points, visualized_3d_trajectories,
                   visualized_3d_arrows, _registered_3d_points,
                   _registered_3d_trajectories, _register_3d_arrow>>

\* register_3d_arrow(key, arrow_path) of the provider: the key is in the
\* registry of 3D arrows afterwards
Register3dArrow(paths, key) == paths \cup {key}

\* unregister_3d_arrow(key) of the provider: the key is not in the registry
\* afterwards; a key that is not registered is ignored
Unregister3dArrow(paths, key) == paths \ {key}

\* the tree of variables shows the signals of a provider that was opened
TreePopulated ==
    /\ ~window_closed
    /\ signal_provider # 0
    /\ providers[signal_provider].started

\* right click, "Show as a 3D point" on an item that is shown neither as a
\* point nor as a trajectory: the visualizer, then the provider, then the
\* set of the window
show_3d_point(key) ==
    /\ TreePopulated
    /\ key \notin visualized_3d_points \cup visualized_3d_trajectories
    /\ meshcat_visualizer_mutex = "free"
    /\ points_path_lock = "free"
    /\ _registered_3d_points' = _registered_3d_points \cup {key}
    /\ points_path' = points_path \cup {key}
    /\ visualized_3d_points' = visualized_3d_points \cup {key}
    /\ UNCHANGED <<gui_frame, signal_provider, providers, actionRealtime_Connect,
                   window_closed, provider_type, points_path_lock,
                   trajectories_path_lock, trajectories_path, arrows_path,
                   visualized_3d_trajectories, visualized_3d_arrows,
                   _registered_3d_trajectories, _register_3d_arrow>>

\* right click, "Show as a 3D trajectory"
show_3d_trajectory(key) ==
    /\ TreePopulated
    /\ key \notin visualized_3d_points \cup visualized_3d_trajectories
    /\ meshcat_visualizer_mutex = "free"
    /\ trajectories_path_lock = "free"
    /\ _registered_3d_trajectories' = _registered_3d_trajectories \cup {key}
    /\ trajectories_path' = trajectories_path \cup {key}
    /\ visualized_3d_trajectories' = visualized_3d_trajectories \cup {key}
    /\ UNCHANGED <<gui_frame, signal_provider, providers, actionRealtime_Connect,
                   window_closed, provider_type, points_path_lock,
                   trajectories_path_lock, points_path, arrows_path,
                   visualized_3d_points, visualized_3d_arrows,
                   _registered_3d_points, _register_3d_arrow>>

\* right click, "Show as a 3D arrow" on an item that is not shown as an arrow
show_3d_arrow(key) ==
    /\ TreePopulated
    /\ key \notin visualized_3d_arrows
    /\ meshcat_visualizer_mutex = "free"
    /\ _register_3d_arrow' = _register_3d_arrow \cup {key}
    /\ arrows_path' = Register3dArrow(arrows_path, key)
    /\ visualized_3d_arrows' = visualized_3d_arrows \cup {key}
    /\ UNCHANGED <<gui_frame, signal_provider, providers, actionRealtime_Connect,
                   window_closed, provider_type, reg_vars,
                   visualized_3d_points, visualized_3d_trajectories,
                   _registered_3d_points, _registered_3d_trajectories>>

\* right click, "Remove the 3D point" on an item of visualized_3d_points: the
\* visualizer (set.remove raises KeyError on a key it does not hold and the
\* handler ends there), then the provider (del raises KeyError on a key it
\* does not hold, with the lock of the registry taken, and the handler ends
\* there), then the set of the window
remove_3d_point(key) ==
    /\ TreePopulated
    /\ key \in visualized_3d_points
    /\ meshcat_visualizer_mutex = "free"
    /\ points_path_lock = "free"
    /\ IF key \notin _registered_3d_points
       THEN UNCHANGED <<_registered_3d_points, points_path, points_path_lock,
                        visualized_3d_points>>
       ELSE /\ _registered_3d_points' = _registered_3d_points \ {key}
            /\ IF key \notin points_path
               THEN /\ points_path_lock' = "unregister"
                    /\ UNCHANGED <<points_path, visualized_3d_points>>
               ELSE /\ points_path' = points_path \ {key}
                    /\ visualized_3d_points' = visualized_3d_points \ {key}
                    /\ UNCHANGED points_path_lock
    /\ UNCHANGED <<gui_frame, signal_provider, providers, actionRealtime_Connect,
                   window_closed, provider_type, trajectories_path_lock,
                   trajectories_path, arrows_path, visualized_3d_trajectories,
                   visualized_3d_arrows, _registered_3d_trajectories,
                   _register_3d_arrow>>

\* right click, "Remove the 3D trajectory": the visualizer pops the key with
\* a default, the provider raises KeyError on a key it does not hold
remove_3d_trajectory(key) ==
    /\ TreePopulated
    /\ key \in visualized_3d_trajectories
    /\ meshcat_visualizer_mutex = "free"
    /\ trajectories_path_lock = "free"
    /\ _registered_3d_trajectories' = _registered_3d_trajectories \ {key}
    /\ IF key \notin trajectories_path
       THEN /\ trajectories_path_lock' = "unregister"
            /\ UNCHANGED <<trajectories_path, visualized_3d_trajectories>>
       ELSE /\ trajectories_path' = trajectories_path \ {key}
            /\ visualized_3d_trajectories' = visualized_3d_trajectories \ {key}
            /\ UNCHANGED trajectories_path_lock
    /\ UNCHANGED <<gui_frame, signal_provider, providers, actionRealtime_Connect,
                   window_closed, provider_type, points_path_lock, points_path,
                   arrows_path, visualized_3d_points, visualized_3d_arrows,
                   _registered_3d_points, _register_3d_arrow>>

\* right click, "Remove the 3D arrow": the visualizer raises KeyError on a
\* key it does not hold, the provider removes a key it holds and ignores
\* one it does not
remove_3d_arrow(key) ==
    /\ TreePopulated
    /\ key \in visualized_3d_arrows
    /\ meshcat_visualizer_mutex = "free"
    /\ IF key \notin _register_3d_arrow
       THEN UNCHANGED <<_register_3d_arrow, arrows_path, visualized_3d_arrows>>
       ELSE /\ _register_3d_arrow' = _register_3d_arrow \ {key}
            /\ arrows_path' = Unregister3dArrow(arrows_path, key)
            /\ visualized_3d_arrows' = visualized_3d_arrows \ {key}
    /\ UNCHANGED <<gui_frame, signal_provider, providers, actionRealtime_Connect,
                   window_closed, provider_type, reg_vars,
                   visualized_3d_points, visualized_3d_trajectories,
                   _registered_3d_points, _registered_3d_trajectories>>

\* _apply_view_snapshot(snapshot) on the dataset that is loaded:
\* _clear_visualization_items(), then every point, trajectory and arrow of
\* the snapshot whose item is in the tree is registered in the visualizer
\* and in the provider and added to the set of the window
apply_view_snapshot(snap_points, snap_trajectories, snap_arrows) ==
    /\ TreePopulated
    /\ providers[signal_provider].type = "OFFLINE"
    /\ meshcat_visualizer_mutex = "free"
    /\ points_path_lock = "free"
    /\ trajectories_path_lock = "free"
    /\ _registered_3d_points' =
           Cleared(_registered_3d_points, visualized_3d_points) \cup snap_points
    /\ _registered_3d_trajectories' =
           Cleared(_registered_3d_trajectories, visualized_3d_trajectories)
               \cup snap_trajectories
    /\ _register_3d_arrow' =
           Cleared(_register_3d_arrow, visualized_3d_arrows) \cup snap_arrows
    /\ points_path' = points_path \cup snap_points
    /\ trajectories_path' = trajectories_path \cup snap_trajectories
    /\ arrows_path' = UNION ({arrows_path} \cup
                             {Register3dArrow(arrows_path, key) : key \in snap_arrows})
    /\ visualized_3d_points' = snap_points
    /\ visualized_3d_trajectories' = snap_trajectories
    /\ visualized_3d_arrows' = snap_arrows
    /\ UNCHANGED <<gui_frame, signal_provider, providers, actionRealtime_Connect,
                   window_closed, provider_type, points_path_lock,
                   trajectories_path_lock>>

\* the handlers of the main window, one at a time on the UI thread
GuiNext ==
    \/ \E readable \in BOOLEAN : load_mat_file(readable)
    \/ \E handshake \in Handshakes : connect_realtime_logger(handshake)
    \/ closeEvent
    \/ \E key \in RegKeys : show_3d_point(key)
    \/ \E key \in RegKeys : show_3d_trajectory(key)
    \/ \E key \in RegKeys : show_3d_arrow(key)
    \/ \E key \in RegKeys : remove_3d_point(key)
    \/ \E key \in RegKeys : remove_3d_trajectory(key)
    \/ \E key \in RegKeys : remove_3d_arrow(key)
    \/ \E snap_points, snap_trajectories, snap_arrows \in SUBSET RegKeys :
           apply_view_snapshot(snap_points, snap_trajectories, snap_arrows)

GuiSpec == InitOffline /\ [][GuiNext]_vars

\* ----------------------------------------------------------------------
\* The 3D visualizer: its registries, called from the UI thread, and the
\* iteration of its thread, both under meshcat_visualizer_mutex
\* ----------------------------------------------------------------------
\* what the calls on the visualizer and the steps of its thread leave alone
mc_frame == <<rd_vars, provider_type, period, opened, leaves_seen, timestamps,
              initial_time, end_time, state, index, current_time, index_lock, pc,
              seen_state, tmp_index, emitted, rt_vars, closed_set, percentage,
              open_vars, robot_state_path_lock, store_leaf, ref_time, result,
              reg_vars, arrows_path, gui_vars>>

\* MeshcatProvider.register_3d_point(point_path, color): under the mutex,
\* add the key and load its sphere
meshcat_register_3d_point(key) ==
    /\ meshcat_visualizer_mutex = "free"
    /\ _registered_3d_points' = _registered_3d_points \cup {key}
    /\ UNCHANGED <<mc_frame, _registered_3d_trajectories, _register_3d_arrow,
                   meshcat_visualizer_mutex, mc_pc, mc_items, mc_key>>

\* MeshcatProvider.register_3d_trajectory(trajectory_path, color)
meshcat_register_3d_trajectory(key) ==
    /\ meshcat_visualizer_mutex = "free"
    /\ _registered_3d_trajectories' = _registered_3d_trajectories \cup {key}
    /\ UNCHANGED <<mc_frame, _registered_3d_points, _register_3d_arrow,
                   meshcat_visualizer_mutex, mc_pc, mc_items, mc_key>>

\* MeshcatProvider.register_3d_arrow(arrow_path, color)
meshcat_register_3d_arrow(key) ==
    /\ meshcat_visualizer_mutex = "free"
    /\ _register_3d_arrow' = _register_3d_arrow \cup {key}
    /\ UNCHANGED <<mc_frame, _registered_3d_points, _registered_3d_trajectories,
                   meshcat_visualizer_mutex, mc_pc, mc_items, mc_key>>

\* the same call made without waiting for the mutex
meshcat_unregister_3d_point_unlocked(key) ==
    /\ _registered_3d_points' = _registered_3d_points \ {key}
    /\ UNCHANGED <<mc_frame, _registered_3d_trajectories, _register_3d_arrow,
                   meshcat_visualizer_mutex, mc_pc, mc_items, mc_key>>

\* MeshcatProvider.unregister_3d_point(point_path): under the mutex, remove
\* the key (KeyError on a key that is not registered: nothing changes, the
\* locker releases the mutex) and delete its shape
meshcat_unregister_3d_point(key) ==
    /\ meshcat_visualizer_mutex = "free"
    /\ _registered_3d_points' = _registered_3d_points \ {key}
    /\ UNCHANGED <<mc_frame, _registered_3d_trajectories, _register_3d_arrow,
                   meshcat_visualizer_mutex, mc_pc, mc_items, mc_key>>

\* MeshcatProvider.unregister_3d_trajectory(trajectory_path): under the
\* mutex, pop the key with a default and delete its shape
meshcat_unregister_3d_trajectory(key) ==
    /\ meshcat_visualizer_mutex = "free"
    /\ _registered_3d_trajectories' = _registered_3d_trajectories \ {key}
    /\ UNCHANGED <<mc_frame, _registered_3d_points, _register_3d_arrow,
                   meshcat_visualizer_mutex, mc_pc, mc_items, mc_key>>

\* MeshcatProvider.unregister_3d_arrow(arrow_path)
meshcat_unregister_3d_arrow(key) ==
    /\ meshcat_visualizer_mutex = "free"
    /\ _register_3d_arrow' = _register_3d_arrow \ {key}
    /\ UNCHANGED <<mc_frame, _registered_3d_points, _registered_3d_trajectories,
                   meshcat_visualizer_mutex, mc_pc, mc_items, mc_key>>

\* register_3d_arrow(key, arrow_path) of the provider
register_3d_arrow(key) ==
    /\ arrows_path' = Register3dArrow(arrows_path, key)
    /\ UNCHANGED <<rd_vars, provider_type, period, opened, leaves_seen, timestamps,
                   initial_time, end_time, state, index, current_time, index_lock,
                   pc, seen_state, tmp_index, emitted, rt_vars, closed_set,
                   percentage, open_vars, robot_state_path_lock, store_leaf,
                   ref_time, result, reg_vars, gui_vars, mc_vars>>

\* unregister_3d_arrow(key) of the provider
unregister_3d_arrow(key) ==
    /\ arrows_path' = Unregister3dArrow(arrows_path, key)
    /\ UNCHANGED <<rd_vars, provider_type, period, opened, leaves_seen, timestamps,
                   initial_time, end_time, state, index, current_time, index_lock,
                   pc, seen_state, tmp_index, emitted, rt_vars, closed_set,
                   percentage, open_vars, robot_state_path_lock, store_leaf,
                   ref_time, result, reg_vars, gui_vars, mc_vars>>

\* the keys of the dict that get_3d_point_at_index, get_3d_trajectory_at_index
\* or get_3d_arrow_at_index returns: the keys of the registry of the kind
QueryKeys(kind) ==
    IF kind = "point" THEN points_path
    ELSE IF kind = "trajectory" THEN trajectories_path
    ELSE arrows_path

\* the keys the visualizer holds for a kind of overlay
Registered(kind) ==
    IF kind = "point" THEN _registered_3d_points
    ELSE IF kind = "trajectory" THEN _registered_3d_trajectories
    ELSE _register_3d_arrow

\* run(), a running visualizer with its model loaded: take the mutex and
\* set the state of the robot
McLock ==
    /\ mc_pc = "top"
    /\ meshcat_visualizer_mutex = "free"
    /\ meshcat_visualizer_mutex' = "visualizer"
    /\ mc_pc' = "locked"
    /\ UNCHANGED <<mc_frame, _registered_3d_points, _registered_3d_trajectories,
                   _register_3d_arrow, mc_items, mc_key>>

\* run(): the next entry of the dict; `if key not in registered: continue`
McCheck ==
    /\ mc_pc \in OverlayKinds
    /\ mc_key = "none"
    /\ \E key \in mc_items :
           /\ mc_items' = mc_items \ {key}
           /\ mc_key' = IF key \in Registered(mc_pc) THEN key ELSE "none"
    /\ UNCHANGED <<mc_frame, _registered_3d_points, _registered_3d_trajectories,
                   _register_3d_arrow, meshcat_visualizer_mutex, mc_pc>>

\* run(): the update of the shape of the key that passed the test
\* (set_primitive_geometry_transform; delete and load_line;
\* set_arrow_transform)
McUpdate ==
    /\ mc_pc \in OverlayKinds
    /\ mc_key # "none"
    /\ mc_key' = "none"
    /\ UNCHANGED <<mc_frame, _registered_3d_points, _registered_3d_trajectories,
                   _register_3d_arrow, meshcat_visualizer_mutex, mc_pc, mc_items>>

\* run(): the loop over a dict has ended; ask the provider, which takes
\* the lock of its registry, for the dict of the next kind, or release the
\* mutex after the arrows
McNextDict ==
    /\ mc_pc \in OverlayKinds \cup {"locked"}
    /\ mc_key = "none"
    /\ mc_items = {}
    /\ IF mc_pc = "locked"
       THEN /\ points_path_lock = "free"
            /\ mc_pc' = "point"
            /\ mc_items' = QueryKeys("point")
            /\ UNCHANGED meshcat_visualizer_mutex
       ELSE IF mc_pc = "point"
       THEN /\ trajectories_path_lock = "free"
            /\ mc_pc' = "trajectory"
            /\ mc_items' = QueryKeys("trajectory")
            /\ UNCHANGED meshcat_visualizer_mutex
       ELSE IF mc_pc = "trajectory"
       THEN /\ mc_pc' = "arrow"
            /\ mc_items' = QueryKeys("arrow")
            /\ UNCHANGED meshcat_visualizer_mutex
       ELSE /\ mc_pc' = "top"
            /\ mc_items' = {}
            /\ meshcat_visualizer_mutex' = "free"
    /\ UNCHANGED <<mc_frame, _registered_3d_points, _registered_3d_trajectories,
                   _register_3d_arrow, mc_key>>

\* one step of the thread of the visualizer
meshcat_run ==
    \/ McLock
    \/ McCheck
    \/ McUpdate
    \/ McNextDict

\* the thread of the visualizer against the register and unregister calls
\* the UI thread makes on the visualizer and on the provider
VisualizerNext ==
    \/ meshcat_run
    \/ \E key \in RegKeys : meshcat_register_3d_point(key)
    \/ \E key \in RegKeys : meshcat_register_3d_trajectory(key)
    \/ \E key \in RegKeys : meshcat_register_3d_arrow(key)
    \/ \E key \in RegKeys : meshcat_unregister_3d_point(key)
    \/ \E key \in RegKeys : meshcat_unregister_3d_trajectory(key)
    \/ \E key \in RegKeys : meshcat_unregister_3d_arrow(key)
    \/ \E key \in RegKeys : register_3d_point(key)
    \/ \E key \in RegKeys : register_3d_trajectory(key)
    \/ \E key \in RegKeys : register_3d_arrow(key)
    \/ \E key \in RegKeys : unregister_3d_point(key)
    \/ \E key \in RegKeys : unregister_3d_trajectory(key)
    \/ \E key \in RegKeys : unregister_3d_arrow(key)

VisualizerSpec == InitOffline /\ [][VisualizerNext]_vars

\* ======================================================================
\* Properties
\* ======================================================================
Offline == provider_type = "OFFLINE" /\ opened
Realtime == provider_type = "REALTIME" /\ opened
Last(q) == q[Len(q)]
\* clamp of i to [0, n-1], stated without the code's min/max
Clamped(i, n) == IF i < 0 THEN 0 ELSE IF i > n - 1 THEN n - 1 ELSE i
\* a step of the provider thread that completes a playback tick
TickCompletes == provider_type = "OFFLINE" /\ pc = "advance" /\ pc' = "emit"

\* C1: on a loaded offline provider with len >= 1, update_index(i) sets index
\* to clamp(i, 0, len-1) and current_time to timestamps[index] - initial_time,
\* and leaves the timeline alone, so that repeating the call changes nothing.
C1_UpdateIndexClamps ==
    [][\A i \in (-2)..(MaxLen + 2) :
          (Offline /\ Len(timestamps) >= 1 /\ update_index(i)) =>
              /\ index' = Clamped(i, Len(timestamps))
              /\ 0 <= index' /\ index' <= Len(timestamps) - 1
              /\ current_time' = timestamps[index' + 1] - initial_time
              /\ (i = -2 => index' = 0)
              /\ (i = MaxLen + 2 => index' = Len(timestamps) - 1)
              /\ UNCHANGED <<timestamps, initial_time, end_time>>]_vars

\* a seek to the last sample of a timeline of at least two samples, before
\* the thread was ever started
C1_Witness ==
    /\ Offline /\ pc = "idle"
    /\ Len(timestamps) >= 2
    /\ index = Len(timestamps) - 1
    /\ current_time > 0
    /\ current_time = Last(timestamps) - initial_time

\* C2: in every reachable state of a loaded offline provider the index is
\* inside the reference timeline, 0 <= index < len.
C2_IndexInRange ==
    (Offline /\ Len(timestamps) >= 1) => (0 <= index /\ index < Len(timestamps))

\* C3: monotonic advance: a step that is not a seek (a step of the provider
\* thread) never decreases index nor current_time of the offline provider.
C3_MonotonicAdvance ==
    [][(provider_type = "OFFLINE" /\ pc' # pc) =>
          (index' >= index /\ current_time' >= current_time)]_vars

\* a tick has just moved the index forward
C3_Witness ==
    /\ Offline /\ pc = "emit"
    /\ index > tmp_index
    /\ current_time > 0

\* C4: a completed running tick started at (i0, t0) ends with current_time =
\* min(t0 + period, timestamps[last] - initial_time) and index = the smallest
\* j >= i0 with timestamps[j] - initial_time >= current_time.
C4_TickResult ==
    [][TickCompletes =>
          /\ current_time' = (IF current_time + period <= Last(timestamps) - initial_time
                              THEN current_time + period
                              ELSE Last(timestamps) - initial_time)
          /\ index' >= index
          /\ At(timestamps, index') - initial_time >= current_time'
          /\ \A k \in index..(index' - 1) :
                At(timestamps, k) - initial_time < current_time']_vars

\* a tick whose scan skipped a sample and stopped before the end of the timeline
C4_Witness ==
    /\ Offline /\ pc = "emit"
    /\ tmp_index >= 0
    /\ index >= tmp_index + 2
    /\ current_time < Last(timestamps) - initial_time

\* C5 (as stated): in every reachable state of a loaded offline provider,
\* the states reached after playback ticks included, current_time equals
\* reference_timestamps[index] - initial_time.  Read where the claim insists:
\* at the states a playback tick has just produced, on the timelines that
\* start at initial_time, as the data model defines initial_time.
C5_CurrentTimeIsSampleTime ==
    (/\ Offline /\ pc = "emit"
     /\ ValidIdx(timestamps, index)
     /\ initial_time = At(timestamps, 0)) =>
        current_time = At(timestamps, index) - initial_time

\* C5 (amended): current_time equals timestamps[index] - initial_time right
\* after update_index on a non-empty timeline; a completed tick leaves
\* current_time = min(previous + period, timestamps[last] - initial_time),
\* which is <= timestamps[index] - initial_time.
C5_CurrentTimeAtMostSampleTime ==
    [][/\ (Offline /\ Len(timestamps) >= 1 /\ \E i \in (-2)..(MaxLen + 2) : update_index(i))
            => current_time' = At(timestamps, index') - initial_time
       /\ TickCompletes
            => /\ current_time' <= At(timestamps, index') - initial_time
               /\ current_time' = Min(current_time + period,
                                      Last(timestamps) - initial_time)]_vars

\* after a tick the clock lies strictly between two samples of a timeline
\* that starts at initial_time
C5_Witness ==
    /\ Offline /\ pc = "emit"
    /\ initial_time = timestamps[1]
    /\ index > 0
    /\ current_time < At(timestamps, index) - initial_time
    /\ current_time > At(timestamps, index - 1) - initial_time

\* C6: every loop iteration executed in running state emits the change
\* notification exactly once, an iteration executed in pause state emits none.
\* The count is read where the iteration is over: past the emit, or dead.
C6_EmitOncePerRunningIteration ==
    (pc \in {"check", "done", "dead"}) =>
        emitted = (IF seen_state = "running" THEN 1 ELSE 0)

\* C7: an iteration executed in pause state leaves index, current_time, the
\* reference timeline and every buffer unchanged and goes through the sleep
\* to the closed-state exit check.
PauseIterationStep ==
    /\ pc' # pc
    /\ \/ pc = "top" /\ state = "pause"
       \/ pc = "check" /\ seen_state = "pause"
C7_PauseIterationIsInert ==
    [][PauseIterationStep =>
          /\ UNCHANGED <<index, current_time, timestamps, initial_time, end_time,
                         data, buffered_signals, index_lock>>
          /\ (pc = "top" => pc' = "check" /\ emitted' = 0)
          /\ (pc = "check" => pc' = (IF state = "closed" THEN "done" ELSE "top"))]_vars

\* a pause iteration of a provider that holds data has reached the exit check
C7_Witness ==
    /\ opened /\ pc = "check"
    /\ seen_state = "pause" /\ state = "pause"
    /\ emitted = 0
    /\ timestamps # <<>>

\* C8: once state is closed and stays closed the thread exits, after at most
\* one further iteration: with state closed the exit check returns and the
\* top of an iteration skips the tick.
ThreadOver == pc \in {"idle", "done", "dead"}
C8_ClosedTerminates ==
    /\ (<>[](state = "closed")) => <>[]ThreadOver
    /\ [][(state = "closed" /\ pc' # pc) =>
             /\ (pc = "check" => pc' = "done")
             /\ (pc = "top" => pc' = "check")]_vars

\* the loop returned at the exit check of an iteration that started running
C8_Witness ==
    /\ pc = "done" /\ state = "closed"
    /\ seen_state = "running"
    /\ emitted = 1

\* C9: closed is terminal: once state has been assigned closed, whatever is
\* assigned to state afterwards, no iteration enters the tick body any more.
C9_ClosedIsTerminal ==
    [][(closed_set /\ pc = "top" /\ pc' # pc) => pc' = "check"]_vars

\* C10: no tick ever terminates the periodic loop: the thread is never
\* killed by an exception, it exits only through the closed-state check.
C10_NoTickKillsTheLoop ==
    /\ pc # "dead"
    /\ (pc = "done" => closed_set)

\* ---------------------------------------------------------------- realtime
Sorted(q) == \A i \in 1..(Len(q) - 1) : q[i] <= q[i + 1]
\* the elements of q that are at most one window older than newest, in order
Within(q, newest) ==
    SelectSeq(q, LAMBDA t : newest - t <= realtime_fixed_plot_window)
\* a step of the provider thread that completes the ingestion of a frame
IngestStep == pc = "ingest" /\ pc' = "emit"
\* a is a leading part of b (or b itself)
IsPrefixOf(a, b) == \E n \in 0..Len(b) : SubSeq(b, 1, n) = a

\* C11: realtime windowing: when the frames received so far carried
\* non-decreasing timestamps, the global buffer holds exactly the received
\* timestamps that are at most one window older than the newest, in arrival
\* order; so last - first <= window and first >= newest - window.
C11_GlobalWindow ==
    (Realtime /\ received # <<>> /\ Sorted(received)) =>
        /\ timestamps = Within(received, Last(received))
        /\ Last(timestamps) - Head(timestamps) <= realtime_fixed_plot_window
        /\ Head(timestamps) >= Last(received) - realtime_fixed_plot_window
        /\ Last(timestamps) = Last(received)

\* the second frame arrived more than one window after the first, which
\* was evicted
C11_Witness ==
    /\ Realtime /\ Sorted(received)
    /\ Len(received) = 2
    /\ Len(timestamps) = 1
    /\ Last(received) - Head(received) > realtime_fixed_plot_window

\* the channel k, or one of its elements, has been handed to add_signals_to_buffer
ChannelAdded(k) ==
    \E sel \in buffered_signals : sel = k \/ sel = k \o ElementSuffix

\* C12: buffered-signal gating: a channel that was never added to the
\* buffered set, and is not the always-included joint positions, holds no
\* sample, whatever frames arrive.
C12_OnlyAddedChannelsAccumulate ==
    \A k \in FrameKeys :
        data[k].timestamps # <<>> => (k = JointsKey \/ ChannelAdded(k))

\* C13 (as stated): when a frame is processed, a frame key k is ingested if
\* and only if k itself, or a prefix of k, is in the buffered set.
C13_IngestIffKeyOrPrefixSelected ==
    [][IngestStep =>
          \A k \in vc_input.keys :
              (data'[k] # data[k]) <=>
                  (\E sel \in buffered_signals : IsPrefixOf(sel, k))]_vars

\* C13 (amended): when a frame is processed, a frame key k is ingested if
\* and only if some member of the buffered set starts with k (k itself is in
\* the set, or k is the leading part of a member); the leaves of the keys
\* the frame does not carry are left alone.
C13_IngestIffSelectionStartsWithKey ==
    [][IngestStep =>
          \A k \in FrameKeys :
              (data'[k] # data[k]) <=>
                  (/\ k \in vc_input.keys
                   /\ \E sel \in buffered_signals : IsPrefixOf(k, sel))]_vars

\* the channel "cmd" holds samples because its element "cmd::0" is selected,
\* while "cmd" itself is not in the set
C13_Witness ==
    /\ Realtime
    /\ data[CmdKey].timestamps # <<>>
    /\ CmdKey \notin buffered_signals
    /\ (CmdKey \o ElementSuffix) \in buffered_signals
    /\ (CmdVelKey \o ElementSuffix) \notin buffered_signals

\* C14: per-leaf eviction mirrors the global rule: the data and timestamps
\* deques of every leaf stay aligned, and an append of a timestamp not older
\* than the leaf's samples leaves in the leaf exactly the samples, old and
\* new, that are at most one window older than the new one, so the leaf's
\* last - first never exceeds the window.
C14_LeafWindow ==
    /\ [](\A k \in FrameKeys : data[k].data = data[k].timestamps)
    /\ [][IngestStep =>
             \A k \in FrameKeys :
                 LET old == data[k].timestamps
                     new == data'[k].timestamps
                     recent == vc_input.ts
                 IN  (/\ data'[k] # data[k]
                      /\ Sorted(old)
                      /\ (old # <<>> => Last(old) <= recent)) =>
                         /\ new = Within(Append(old, recent), recent)
                         /\ data'[k].data = Within(Append(data[k].data, recent), recent)
                         /\ Last(new) - Head(new) <= realtime_fixed_plot_window]_vars

\* the always-buffered leaf has received two samples and evicted the first
C14_Witness ==
    /\ Realtime /\ Sorted(received)
    /\ Len(received) = 2
    /\ data[JointsKey].timestamps = <<Last(received)>>
    /\ data[JointsKey].data = <<Last(received)>>

\* C15: in realtime mode every (data, timestamps) pair a reader obtains for
\* a leaf has equal row counts and comes from one single state of the store
\* (a sample's value and its timestamp at the same row), whatever the
\* interleaving with the ingestion.
C15_ReadPairConsistent ==
    rd_pc = "returned" =>
        /\ Len(rd_data) = Len(rd_timestamps)
        /\ rd_data = rd_timestamps

\* C16: update_index is atomic with respect to a playback tick: while the
\* tick is between its read of the index and its write-back, it holds the
\* index lock, the index it read is still the index, and no other thread
\* changes index or current_time; so the outcome is that of the seek and
\* the tick in one of the two serial orders and no seek is overwritten by a
\* stale index.
C16_SeekAtomicWithTick ==
    /\ [](pc = "advance" => (index_lock = "provider" /\ tmp_index = index))
    /\ [][(pc = "advance" /\ pc' = "advance") =>
             UNCHANGED <<index, current_time>>]_vars
    /\ [][(\E i \in (-2)..(MaxLen + 2) : update_index(i)) =>
             (index_lock = "free" /\ pc # "advance")]_vars

\* a running tick has taken the lock on an index that a seek to the last
\* sample has set
C16_Witness ==
    /\ Offline /\ pc = "advance" /\ state = "running"
    /\ index_lock = "provider"
    /\ Len(timestamps) >= 2
    /\ index = Len(timestamps) - 1
    /\ tmp_index = index
    /\ current_time = Last(timestamps) - initial_time
    /\ current_time > 0

\* -------------------------------------------------------------- query API
\* the distance of row k (1-based) of the queried leaf from the reference time
Dist(k) == Abs(store_leaf.timestamps[k] - ref_time)
\* the nearest row of the queried leaf, the lowest among the equally close (0-based)
Nearest ==
    (CHOOSE k \in 1..Len(store_leaf.timestamps) :
        /\ \A j \in 1..Len(store_leaf.timestamps) : Dist(k) <= Dist(j)
        /\ \A j \in 1..(k - 1) : Dist(j) > Dist(k)) - 1
\* a call of the offline get_item_from_path_at_index has returned rows
OfflineItem(kind) ==
    /\ provider_type = "OFFLINE"
    /\ result.call = "item"
    /\ result.kind = kind

\* C17: nearest-timestamp resolution: with neighbor = 0 the offline
\* get_item_from_path_at_index returns row k of the leaf, where k minimizes
\* |leaf_timestamps[k] - reference time| and is the lowest of the equally
\* close rows.
C17_NearestLowestTie ==
    (OfflineItem("row") /\ result.neighbor = 0) =>
        LET k == result.rows[1] + 1
        IN  /\ Len(result.rows) = 1
            /\ k \in 1..Len(store_leaf.timestamps)
            /\ \A j \in 1..Len(store_leaf.timestamps) : Dist(k) <= Dist(j)
            /\ \A j \in 1..(k - 1) : Dist(j) > Dist(k)
            /\ result.value = Row(store_leaf, k - 1)

\* two rows of different timestamps are equally close to the reference
\* time and the lower one was returned
C17_Witness ==
    /\ OfflineItem("row")
    /\ \E j \in 1..Len(store_leaf.timestamps) :
          /\ j > result.rows[1] + 1
          /\ Dist(j) = Dist(result.rows[1] + 1)
          /\ store_leaf.timestamps[j] # store_leaf.timestamps[result.rows[1] + 1]

\* C18: neighbor-window retrieval: with neighbor = N > 0 and nearest row c
\* the offline get_item_from_path_at_index returns exactly the contiguous
\* rows max(0, c-N) .. min(rows-1, c+N): the window contains c, has at most
\* 2N+1 rows and stays inside the leaf.
C18_NeighborWindow ==
    (OfflineItem("rows") /\ result.neighbor > 0) =>
        LET N == result.neighbor
            n == Len(store_leaf.timestamps)
            c == Nearest
            lo == IF c - N < 0 THEN 0 ELSE c - N
            hi == IF c + N > n - 1 THEN n - 1 ELSE c + N
        IN  /\ result.rows = [i \in 1..(hi - lo + 1) |-> lo + i - 1]
            /\ \E i \in 1..Len(result.rows) : result.rows[i] = c
            /\ Len(result.rows) <= 2 * N + 1
            /\ \A i \in 1..Len(result.rows) :
                  /\ 0 <= result.rows[i] /\ result.rows[i] <= n - 1
                  /\ result.value[i] = Row(store_leaf, result.rows[i])

\* a window of one neighbor around the first row of a three-row leaf:
\* clipped below, not above
C18_Witness ==
    /\ OfflineItem("rows")
    /\ result.neighbor = 1
    /\ Len(store_leaf.timestamps) = 3
    /\ result.rows = <<0, 1>>

\* v is row r of the queried leaf as the padding policy wants it returned
Padded(v, r) ==
    IF store_leaf.cols < 3
    THEN /\ Len(v) = 3
         /\ \A j \in 1..3 : v[j] = (IF j <= store_leaf.cols THEN Cell(r, j) ELSE 0)
    ELSE v = Row(store_leaf, r)

\* C19: zero-padding: a point or trajectory query over a leaf with fewer
\* than 3 columns returns, for every sample, exactly 3 components: the
\* leaf's own first, then zeros; a leaf with 3 or more columns comes back
\* unpadded.
C19_ZeroPadding ==
    (result.call \in {"point", "trajectory"} /\ store_leaf.present) =>
        /\ result.kind \in {"row", "rows"}
        /\ result.kind = "row" => Padded(result.value, result.rows[1])
        /\ result.kind = "rows" =>
               \A i \in 1..Len(result.rows) : Padded(result.value[i], result.rows[i])

\* C20: a resolution miss is a value: a query over a path that leads to no
\* leaf of the store yields a not-found result, raises nothing and changes
\* no provider state.
C20_MissIsAValue ==
    (result.call # "none" /\ ~store_leaf.present) =>
        /\ result.kind = "None"
        /\ points_path_lock = "free"
        /\ trajectories_path_lock = "free"

\* -------------------------------------------------------------- registries
\* C21: unregistration is idempotent: unregister_3d_point and
\* unregister_3d_trajectory of a key that is not registered return without
\* raising, leave the registry as it was (and its lock free), so that after
\* register(k), unregister(k), unregister(k) the key is not in the registry
\* a following query iterates over.
C21_UnregisterIdempotent ==
    /\ reg_call.op \in {"unregister_3d_point", "unregister_3d_trajectory"} =>
           /\ ~reg_call.raised
           /\ points_path_lock # "unregister"
           /\ trajectories_path_lock # "unregister"
    /\ reg_call.op = "unregister_3d_point" => reg_call.key \notin points_path
    /\ reg_call.op = "unregister_3d_trajectory" => reg_call.key \notin trajectories_path

\* C22: registration visibility: every get_3d_point_at_index call that
\* starts after register_3d_point(key, path) has returned, and before key is
\* unregistered, returns a dict that contains key; the query and the
\* registration exclude each other, so the dict holds the keys of the
\* registry of one single moment.
C22_RegistrationVisible ==
    [][get_3d_point_at_index =>
          /\ result'.kind # "raised"
          /\ points' = points_path
          /\ points_path' = points_path]_vars

\* ------------------------------------------------------------------ seeks
\* C23 (as stated): set_dataset_percentage(p), p = k / PctSteps in [0, 1],
\* has the effect of update_index(round(p * len)): the index lands on an
\* integer nearest to p * len, clamped to len - 1.
C23_PercentageRounds ==
    [][\A k \in 0..PctSteps :
          (Offline /\ Len(timestamps) >= 1 /\ set_dataset_percentage(k)) =>
              \E j \in 0..(MaxLen + 1) :
                  /\ 2 * Abs(j * PctSteps - k * Len(timestamps)) <= PctSteps
                  /\ index' = Clamped(j, Len(timestamps))]_vars

\* C23 (amended): set_dataset_percentage(p), p = k / PctSteps in [0, 1], has
\* the effect of update_index(j) for j the integer part of p * len
\* (j <= p * len < j + 1): the index lands on j clamped to len - 1, never on
\* the integer above p * len, and current_time on that sample's time.
C23_PercentageTruncates ==
    [][\A k \in 0..PctSteps :
          (Offline /\ Len(timestamps) >= 1 /\ set_dataset_percentage(k)) =>
              \E j \in 0..(MaxLen + 1) :
                  /\ j * PctSteps <= k * Len(timestamps)
                  /\ k * Len(timestamps) < (j + 1) * PctSteps
                  /\ index' = Clamped(j, Len(timestamps))
                  /\ current_time' = timestamps[index' + 1] - initial_time
                  /\ UNCHANGED <<timestamps, initial_time, end_time>>]_vars

\* a percentage seek whose p * len lies above the half between two integers
\* has put the index on the lower one
C23_Witness ==
    /\ Offline
    /\ percentage >= 0
    /\ 2 * ((percentage * Len(timestamps)) % PctSteps) > PctSteps
    /\ (percentage * Len(timestamps)) \div PctSteps < Len(timestamps) - 1
    /\ index = (percentage * Len(timestamps)) \div PctSteps
    /\ current_time = timestamps[index + 1] - initial_time

\* ------------------------------------------------- the reference timeline
\* the time extent of a timestamp vector
Extent(q) == Last(q) - Head(q)
\* a step of the loader that processes one leaf
LeafProcessed == provider_type = "OFFLINE" /\ leaves_seen' = leaves_seen + 1

\* C24: reference-timeline selection: after each leaf the loader processes,
\* the reference timeline is the timestamp vector of one single leaf, and
\* its extent (last - first) is at least the extent of every leaf processed
\* so far; so the extent of the reference timeline never shrinks when a
\* further leaf is processed.
C24_MostExpansiveLeaf ==
    [][LeafProcessed =>
          /\ timestamps' \in LeafTimestamps
          /\ timestamps # <<>> => Extent(timestamps') >= Extent(timestamps)]_vars

\* C25: whenever a provider holds data, initial_time is the first element
\* of the reference timeline and end_time its last: offline for every set of
\* leaves, realtime after every ingested frame.
C25_BoundsAreTimelineEnds ==
    timestamps # <<>> =>
        /\ initial_time = Head(timestamps)
        /\ end_time = Last(timestamps)

\* C26: initial_time <= end_time in every reachable state in which data
\* exists, whatever the leaves of the archive and whatever the order of the
\* timestamps of the frames of the stream.
C26_InitialBeforeEnd ==
    timestamps # <<>> => initial_time <= end_time

\* ------------------------------------------------------ the realtime index
\* the value a read of the index property yields in this state
IndexRead == IndexProperty(provider_type, index, timestamps)
\* C27: in the realtime provider the index read at any time is the position
\* of the latest received sample in the global buffer, len - 1, and 0 while
\* the buffer is empty; no step but the ingestion of a frame changes it:
\* no update_index or set_dataset_percentage call, no other step of a tick.
C27_IndexIsLatestSample ==
    /\ [](Realtime =>
             /\ timestamps = <<>> => IndexRead = 0
             /\ timestamps # <<>> =>
                    /\ IndexRead + 1 = Len(timestamps)
                    /\ timestamps[IndexRead + 1] = Last(received))
    /\ [][(Realtime /\ ~IngestStep) => IndexRead' = IndexRead]_vars

\* a percentage seek to the end was made, the stored _index is 0, and the
\* index read is that of the second of two buffered samples
C27_Witness ==
    /\ Realtime
    /\ percentage = PctSteps
    /\ index = 0
    /\ Len(timestamps) = 2
    /\ IndexRead = 1

\* C28: the buffered-signals set of the realtime provider contains the
\* joint-position key in every reachable state, whatever is handed to
\* add_signals_to_buffer, so the ingestion of a frame that carries the key
\* appends the frame's sample to the joint-position leaf, whatever the
\* user's selection.
C28_JointsAlwaysBuffered ==
    /\ [](provider_type = "REALTIME" => JointsKey \in buffered_signals)
    /\ [][(IngestStep /\ JointsKey \in vc_input.keys) =>
             /\ data'[JointsKey].timestamps # <<>>
             /\ Last(data'[JointsKey].timestamps) = vc_input.ts
             /\ Last(data'[JointsKey].data) = vc_input.ts
             /\ Len(data'[JointsKey].data) = Len(data'[JointsKey].timestamps)]_vars

\* the user has selected signals of another channel, and the joint
\* positions of both frames of the stream are in their leaf
C28_Witness ==
    /\ Realtime
    /\ buffered_signals # {JointsKey}
    /\ Len(received) = 2
    /\ data[JointsKey].timestamps = received

\* the read of a tick of the realtime provider has returned no data
EmptyRead == provider_type = "REALTIME" /\ pc = "body" /\ pc' # pc /\ vc_input' = NoFrame

\* C29: a realtime tick whose read returns no data is a soft failure: the
\* tick skips the ingestion and leaves the global buffer, every leaf
\* buffer, initial_time and end_time as they were, the loop goes on to the
\* end of the iteration, and a frame read after an empty read is ingested
\* as any other: it is appended, and a stream of non-decreasing timestamps
\* leaves in the buffer what is within one window of the newest.
C29_EmptyReadIsSoft ==
    /\ [][EmptyRead =>
             /\ pc' = "emit"
             /\ UNCHANGED <<timestamps, data, initial_time, end_time, index_lock,
                            received, buffered_signals>>]_vars
    /\ [][(IngestStep /\ empty_read_at >= 0) =>
             /\ received' = Append(received, vc_input.ts)
             /\ Last(timestamps') = vc_input.ts
             /\ Sorted(received') => timestamps' = Within(received', vc_input.ts)
             /\ initial_time' = Head(timestamps')
             /\ end_time' = vc_input.ts]_vars
    /\ [](pc = "emit" => index_lock = "free")

\* a read returned no data after the first frame, and the second frame of
\* the stream has then been ingested next to the first
C29_Witness ==
    /\ Realtime /\ pc = "emit"
    /\ empty_read_at = 1
    /\ Len(received) = 2
    /\ timestamps = received
    /\ initial_time = Head(received)
    /\ end_time = Last(received)

\* C30: the realtime open reports a failed handshake as a value: when
\* get_metadata returns nothing, an empty collection or an error of the
\* transport, open returns False and raises nothing, the data store stays
\* empty and the caller does not start the thread.
C30_FailedHandshakeReturnsFalse ==
    /\ open_result.returned # "raised"
    /\ open_result.handshake \in {"empty", "ValueError"} =>
           /\ open_result.returned = "False"
           /\ ~opened
           /\ pc = "idle"
           /\ \A k \in FrameKeys : data[k] = EmptyLeaf

\* ---------------------------------------------------------------------
\* a call of open_mat_file() has ended
OpenEnded == provider_type = "OFFLINE" /\ open_result # NoOpen

\* C31: offline open tolerates a renamed root: on an archive whose
\* description_list is in a top-level group that is not named
\* robot_logger_device, open succeeds (it does not raise, the provider is
\* loaded) and the provider adopts that group as its root.
C31_RenamedRootTolerated ==
    OpenEnded =>
        /\ open_result.returned = "returned"
        /\ opened
        /\ root_name = open_result.handshake

\* C32: scalar leaves are retrievable: on a leaf of a single column, which
\* the loader stores as a one-dimensional series, get_item_from_path_at_index
\* returns the value of the nearest sample, as it does for a leaf of
\* several columns, and does not raise.
C32_ScalarLeafRetrievable ==
    (/\ provider_type = "OFFLINE"
     /\ result.call = "item"
     /\ store_leaf.present
     /\ store_leaf.cols = 1) =>
        /\ result.kind # "raised"
        /\ result.neighbor = 0 =>
               /\ result.rows = <<Nearest>>
               /\ result.value = Row(store_leaf, Nearest)

\* the thread that makes the calls that leave a lock in state holder: the
\* provider thread its tick, the visualizer thread the queries, the GUI
\* thread the registry calls.  The state lock is taken by the state
\* property alone, which calls nothing, and is free between any two steps.
LocksHeldBy(holder) ==
    Cardinality({l \in {"index", "robot_state", "points", "trajectories"} :
        holder = (IF l = "index" THEN index_lock
                  ELSE IF l = "robot_state" THEN robot_state_path_lock
                  ELSE IF l = "points" THEN points_path_lock
                  ELSE trajectories_path_lock)})

\* C33: no thread ever holds two of the locks of a provider at once: no
\* tick, seek, query or registration takes one of them while its thread
\* holds another.
C33_NoThreadHoldsTwoLocks ==
    \A holder \in {"provider", "query", "unregister"} : LocksHeldBy(holder) <= 1

\* C35: every lock a provider operation acquires is released on every exit
\* path: once a register, unregister or query call has ended, also by an
\* exception raised inside its critical section, the lock it took is free
\* again, and a tick that failed has released the index lock.
C35_LocksReleasedOnEveryExit ==
    /\ points_path_lock = "free"
    /\ trajectories_path_lock = "free"
    /\ robot_state_path_lock = "free"
    /\ pc = "dead" => index_lock = "free"

\* the time of the last sample on the playback clock
EndOfPlayback == Last(timestamps) - initial_time
\* the thread of a loaded, non-empty offline provider has been started and
\* has not returned
Playing == Offline /\ Len(timestamps) >= 1 /\ pc \notin {"idle", "done"}

\* C36: playback reaches the end and stops there: if the offline provider
\* stays running and no seek occurs, after finitely many ticks current_time
\* is timestamps[last] - initial_time; from then on a tick leaves index and
\* current_time unchanged, and the index never goes beyond len - 1.
C36_PlaybackReachesEndAndStops ==
    /\ (<>[](Playing /\ state = "running")) =>
           <>[](Playing /\ current_time = EndOfPlayback)
    /\ [][(Playing /\ TickCompletes /\ current_time = EndOfPlayback) =>
             (index' = index /\ current_time' = current_time)]_vars
    /\ [](Playing => (/\ current_time <= EndOfPlayback
                      /\ 0 <= index /\ index <= Len(timestamps) - 1
                      /\ pc # "dead"))

\* a tick completed with the clock already at the end of a timeline of at
\* least two different sample times
C36_Witness ==
    /\ Playing /\ pc = "emit" /\ state = "running"
    /\ Head(timestamps) < Last(timestamps)
    /\ current_time = EndOfPlayback
    /\ tmp_index = index

\* C37: add_signals_to_buffer called from the GUI thread at any point of a
\* realtime tick in progress, also while the tick iterates the set of
\* buffered signals, never aborts the tick nor loses an update: the
\* ingestion of a well-formed frame completes, and every added signal is
\* in the set afterwards.
C37_AddSignalsNeverAbortsTick ==
    /\ [][(Realtime /\ pc = "ingest" /\ vc_input.has_ts) => pc' # "dead"]_vars
    /\ [][\A signals \in SUBSET SelectableSignals :
             add_signals_to_buffer(signals) => signals \subseteq buffered_signals']_vars

\* C38: in every reachable state of the realtime provider every timestamp
\* retained in a buffered leaf is >= initial_time, the oldest retained
\* global timestamp: no leaf holds samples older than the global window,
\* also when its channel is absent from the most recent frames.  Stated
\* for the feeds whose timestamps never go back.
C38_LeavesWithinGlobalWindow ==
    (Realtime /\ Sorted(received)) =>
        \A k \in FrameKeys :
            \A i \in 1..Len(data[k].timestamps) :
                data[k].timestamps[i] >= initial_time

\* a provider the window created and no longer refers to
Dropped(n) == providers[n].type # "none" /\ signal_provider # n

\* C34: whenever the GUI has replaced or discarded a provider whose thread
\* was started (by loading a dataset, by connecting to the realtime logger or
\* by closing the window), it has first disconnected the update callback,
\* set the state of that provider to closed and waited for its thread: no
\* started provider is dropped while its thread can still emit
C34_StartedProviderStoppedBeforeDrop ==
    \A n \in 1..MaxProviders :
        (Dropped(n) /\ providers[n].started) =>
            /\ ~providers[n].connected
            /\ providers[n].state = "closed"
            /\ providers[n].waited

\* the keys the provider of the window holds for each kind of overlay
ProviderKeys(kind) ==
    IF signal_provider = 0 THEN {} ELSE QueryKeys(kind)
\* the keys the window records as visualized for each kind of overlay
VisualizedKeys(kind) ==
    IF kind = "point" THEN visualized_3d_points
    ELSE IF kind = "trajectory" THEN visualized_3d_trajectories
    ELSE visualized_3d_arrows

\* C40: after any sequence of completed GUI actions (show or remove a 3D
\* point, trajectory or arrow, load a dataset, restore a view snapshot), for
\* each of the three kinds of overlay the keys registered in the provider
\* are the keys registered in the visualizer and the keys the window
\* records as visualized
C40_RegistriesAgree ==
    ~window_closed =>
        \A kind \in OverlayKinds :
            /\ ProviderKeys(kind) = Registered(kind)
            /\ Registered(kind) = VisualizedKeys(kind)

\* C39: the thread of the visualizer never updates or re-creates a shape
\* whose key is not registered in the visualizer: whatever the interleaving
\* of its iteration with the register and unregister calls of the UI thread,
\* every update of a point, of a trajectory or of an arrow is made on a key
\* that is registered at the moment of the update, with the mutex held
C39_UpdateOnlyRegistered ==
    [][(mc_key # "none" /\ mc_key' = "none") =>
           /\ mc_key \in Registered(mc_pc)
           /\ meshcat_visualizer_mutex = "visualizer"]_vars

\* the thread is about to update a key of a dict while another key of the
\* same dict is not, or no longer, registered in the visualizer
C39_Witness ==
    /\ mc_pc \in OverlayKinds
    /\ mc_key # "none"
    /\ \E key \in QueryKeys(mc_pc) \ {mc_key} : key \notin Registered(mc_pc)


====
